---- MODULE Spec2Model ----
(***************************************************************************)
(* heimdizzy: the `deploy <environment>` pipeline of the CLI, the hook     *)
(* runner and the deployment strategies it dispatches to, as one           *)
(* sequential state machine.  Every external command (docker, kubectl,     *)
(* git, npm, S3, CloudFront, a hook's shell command) is a step whose       *)
(* outcome is chosen nondeterministically; `trace` records, in order,      *)
(* every collaborator call, hook execution and notification the run made.  *)
(***************************************************************************)
EXTENDS Integers, Sequences, FiniteSets, TLC

\* ------------------------------------------------------------------ bounds
MaxHooks == 3      \* longest hook list of one phase
MaxFiles == 6     \* most files a web build directory holds
MaxMinFiles == 6  \* largest configured verification.minioCheck.minFiles
MaxImages == 2     \* most image entries of a kustomization.yaml on disk
MaxUpdates == 2    \* updates of one kustomization.yaml with the same image and tag
MaxPods == 1       \* largest pod count a cluster query reports
MaxOutput == 2     \* most characters the NodePort query prints
MaxHeader == 3     \* most characters of an X-RateLimit-Reset-After header
MaxDeployments == 2  \* most entries of the `deployments` list of heimdizzy.yml

\* ------------------------------------------------------- program constants
defaultMinFiles == 5  \* WebDeploymentService.deploy: `minFiles || 5`
mockFiles == 3    \* WebDeploymentService.deploy: the mock file list of a dry run
maxRetries == 30   \* verifyHealth: attempts of the health-check polling loop
defaultNodePort == 30500  \* GitOps push: `parseInt(nodePortOutput) || 30500`
defaultRateLimitDelay == 2000  \* sendNotification: `rateLimitDelay: number = 2000`
maxAttempts == 30  \* waitForPostgres: attempts of the readiness polling loop

VARIABLES
  options,       \* CLI flags: dryRun, skipBuild, skipUpload
  config,        \* what heimdizzy.yml resolves to for this run
  kustomization, \* the kustomization.yaml of the service and the image to record in it
  pc,            \* the statement the run is at
  trace,         \* collaborator calls, hook executions and notifications so far
  err,           \* the exception in flight (NoErr when none)
  cli,           \* locals of the deploy command action
  bld,           \* BuildService fields
  hk,            \* the executeHooks call in progress
  svc,           \* ServiceDeploymentService.deploy locals
  go,            \* GitOpsContainerDeploymentService.deploy: the locals of its push step
  web,           \* WebDeploymentService.deploy locals
  res,           \* the strategy result a DeploymentService method holds
  deployResult,  \* the DeploymentResult the strategy returned ({} before)
  wh,            \* the notify call in progress, down to WebhookService.sendNotification
  sqlx,          \* SqlxService.prepareSqlx and the loop of waitForPostgres
  npmrc          \* whether the .npmrc of NpmDeploymentService.deploy is in the project root

vars == <<options, config, kustomization, pc, trace, err, cli, bld, hk, svc, go, web, res,
          deployResult, wh, sqlx, npmrc>>

\* -------------------------------------------------------------- data model
Types == {"lambda-zip", "container", "web", "npm", "dockerhub", "service", "unknown"}

\* The two DeploymentService classes of services/deployment.ts: the first
\* dispatches web and service, the second web, container, npm, dockerhub and
\* lambda-zip.
Dispatchers == {"web-service", "full"}

skipBuildTypes == {"web", "container", "npm", "dockerhub"}
skipUploadTypes == {"web", "container", "npm", "dockerhub"}

Phases == {"pre_build", "post_build", "pre_deploy", "post_deploy"}

\* An optional value is the empty set (undefined) or a singleton.
None == {}
Some(x) == {x}

NoErr == [kind |-> "none", at |-> "none", wrap |-> <<>>]
Err(kind, at) == [kind |-> kind, at |-> at, wrap |-> <<>>]
\* `throw new Error(`<prefix>: ${error.message}`)`
Wrap(e, prefix) == [e EXCEPT !.wrap = <<prefix>> \o @]

\* DeploymentResult with the fields of the strategy results it nests; a
\* boolean that belongs to a nested result that is absent reads FALSE.
EmptyResult ==
  [skipped |-> FALSE, podCount |-> None, deployedFiles |-> None,
   invalidationId |-> None, published |-> FALSE, pushed |-> FALSE,
   manifestsApplied |-> FALSE, migrationCompleted |-> FALSE,
   deploymentRestarted |-> FALSE, healthCheckPassed |-> FALSE,
   tag |-> None, additionalTags |-> <<>>]

Count(tr, e) == Cardinality({i \in DOMAIN tr : tr[i] = e})
Occurs(tr, e) == \E i \in DOMAIN tr : tr[i] = e
First(tr, e) == CHOOSE i \in DOMAIN tr : tr[i] = e /\ \A j \in 1..(i - 1) : tr[j] # e

\* The notify helper of the deploy action: one call per lifecycle event.
notify(tr, event) == Append(tr, <<"notify", event>>)

\* BuildService.cleanup: removes the build image when one was acquired.
cleanup(tr, b) == IF b.containerName THEN Append(tr, <<"docker", "rmi build image">>) ELSE tr
\* A variant of cleanup that keeps the image name.
cleanedKeepsName(b) == b
cleaned(b) == [b EXCEPT !.containerName = FALSE]

\* kustomization.yaml as text on disk: its comments, its `images` key (absent,
\* or a list of entries) and its other keys, here `resources`.
Endpoint == "registry.svc.cluster.local:5000"
Repositories == {"app", "db"}
Registries == [endpoint : {Endpoint}, repository : Repositories]
ImageNames == {<<Endpoint, r>> : r \in Repositories} \cup {<<r>> : r \in Repositories}
Tags == {"t1", "t2"}
ImageEntries == [name : ImageNames, newTag : Tags]
ImageLists == UNION {[1..n -> ImageEntries] : n \in 0..MaxImages}
KustomizationFiles ==
  [comments : BOOLEAN, resources : {<<>>, <<"deployment.yaml">>},
   images : {None} \cup {Some(l) : l \in ImageLists}]
\* The file of a run that never reads it.  `found` tells whether the file is
\* at one of the paths the strategy looks at, `before` and `last` what the
\* latest deployment found and did.
NoKustomization ==
  [file |-> [comments |-> FALSE, resources |-> <<>>, images |-> None],
   original |-> [comments |-> FALSE, resources |-> <<>>, images |-> None],
   registry |-> [endpoint |-> Endpoint, repository |-> "app"],
   imageTag |-> "t1", updates |-> 0, first |-> None,
   found |-> FALSE, before |-> None, last |-> "none"]

\* What `kubectl get svc ... -o jsonpath='{.spec.ports[0].nodePort}'` can print,
\* trimmed: a few characters, digits or not.
OutputChars == {"0", "3", "x"}
NodePortOutputs == UNION {[1..n -> OutputChars] : n \in 0..MaxOutput}
\* registry.nodePort, when heimdizzy.yml sets it
NodePorts == {31000}

\* The push step before it has looked at the registry.
NoPush == [inCluster |-> FALSE, registryNodePort |-> None, nodePortOutput |-> None,
           nodePort |-> None]

\* WebhookEvent
Events ==
  {"deployStart", "deploySuccess", "deployError", "buildStart", "buildSuccess",
   "buildSkipped", "uploadStart", "uploadSuccess", "uploadSkipped", "podsRestarting",
   "podsReady", "webDeploying", "webDeployed", "cleanup", "dryRun"}

\* NotificationSchema: whether a webhook URL is set, `enabled`, the events
\* switched off in `events`, and rateLimitDelay in milliseconds.  The schema
\* defaults are no webhook, enabled, every event on and 2000.
RateLimitDelays == {defaultRateLimitDelay, 500}
Notifications ==
  [webhook : BOOLEAN, enabled : BOOLEAN, disabled : {{}} \cup {{e} : e \in Events},
   rateLimitDelay : RateLimitDelays]
DefaultNotifications ==
  [webhook |-> FALSE, enabled |-> TRUE, disabled |-> {}, rateLimitDelay |-> defaultRateLimitDelay]

\* What the X-RateLimit-Reset-After header of a 429 response can hold: a
\* number of seconds in decimal notation, with or without a fraction.
HeaderChars == {"0", "3", "."}
RetryAfterValues ==
  {h \in UNION {[1..n -> HeaderChars] : n \in 1..MaxHeader} :
     /\ h[1] # "." /\ h[Len(h)] # "."
     /\ Cardinality({i \in DOMAIN h : h[i] = "."}) <= 1}

\* No notify call in progress.
NoCall == [event |-> "none", ret |-> "none", retryAfter |-> None]

\* No prepareSqlx call in progress.
NoSqlx == [call |-> 0, i |-> 0]

\* deployment.dockerhub: `tag`, with its schema default, and the optional
\* list `tags`.
MaxTags == 2
TagNames == {"latest", "v1", "beta"}
DockerHubConfigs ==
  [tag : {"latest", "v1"},
   tags : {None} \cup {Some(t) : t \in UNION {[1..n -> TagNames] : n \in 0..MaxTags}}]
DefaultDockerHub == [tag |-> "latest", tags |-> None]

\* ------------------------------------------------------------------- Init
\* Fields a deployment type never reads keep their schema default, so that
\* the initial states differ only where the run can differ.
Configs ==
  {c \in [dispatcher : Dispatchers, type : Types, environment : {"staging", "production"},
          targetFound : BOOLEAN, build : BOOLEAN, useDocker : BOOLEAN,
          cleanupContainer : BOOLEAN, typeConfig : BOOLEAN, projectRoot : BOOLEAN,
          gitops : BOOLEAN, notifications : {DefaultNotifications},
          dockerhub : {DefaultDockerHub}] :
     /\ (c.type # "lambda-zip" => c.environment = "staging")
     /\ (c.type \in skipBuildTypes => c.build)
     /\ (~c.build \/ c.type \in skipBuildTypes => c.useDocker /\ c.cleanupContainer)
     /\ (c.type \in {"lambda-zip", "unknown"} => c.typeConfig)
     /\ (c.type \notin {"npm", "dockerhub"} => c.projectRoot)
     /\ (c.type # "container" => c.gitops)
     /\ (~c.targetFound => /\ c.type = "lambda-zip" /\ c.dispatcher = "full"
                           /\ c.environment = "staging" /\ c.build)}

\* The locals of a run that has not started.
InitLocals ==
  /\ trace = <<>>
  /\ err = NoErr
  /\ cli = [loaded |-> FALSE, gitHash |-> None, buildService |-> FALSE,
            buildResult |-> None, handlers |-> 0, exitCode |-> None,
            deployHash |-> None, successHash |-> None, invoked |-> 0, target |-> None]
  /\ bld = [containerName |-> FALSE, gitHash |-> None]
  /\ hk = [list |-> <<>>, idx |-> 1, phase |-> "none", ret |-> "none", catch |-> "none"]
  /\ svc = [i |-> 0, healthData |-> None,
            migrationResult |-> None, healthResult |-> None, result |-> None,
            failedAt |-> "none", origErr |-> NoErr, rollback |-> None]
  /\ go = NoPush
  /\ web = [files |-> 0, deployedFiles |-> 0, invalidationId |-> None,
            check |-> [run |-> FALSE, minFiles |-> None]]
  /\ res = None
  /\ deployResult = None
  /\ wh = NoCall
  /\ sqlx = NoSqlx
  /\ npmrc = FALSE

Init ==
  /\ options \in [dryRun : BOOLEAN, skipBuild : BOOLEAN, skipUpload : BOOLEAN]
  /\ config \in Configs
  /\ kustomization = NoKustomization
  /\ pc = "cli_load"
  /\ InitLocals

\* ------------------------------------------------------ deploy command action
Throw(e, catch) == /\ err' = e /\ pc' = catch

\* The `deployments` list of heimdizzy.yml, each entry by its environment.
EnvironmentNames == {"staging", "production", "development"}
DeploymentLists == UNION {[1..n -> EnvironmentNames] : n \in 0..MaxDeployments}

\* ConfigLoader.getDeploymentConfig: the index of the first entry for the
\* environment, None when it throws.
getDeploymentConfig(deployments, environment) ==
  LET matching == {i \in DOMAIN deployments : deployments[i] = environment}
  IN IF matching = {} THEN None
     ELSE Some(CHOOSE i \in matching : \A j \in matching : i <= j)

\* A variant of the selection that takes the first entry of the list.
LoadConfigFirstEntry ==
  /\ pc = "cli_load"
  /\ \E loads \in BOOLEAN, deployments \in DeploymentLists :
       LET found == IF deployments = <<>> THEN None ELSE Some(1)
       IN /\ (found # None) = config.targetFound
          /\ IF ~loads
             THEN /\ Throw(Err("config", "load"), "cli_catch")
                  /\ cli' = cli
             ELSE /\ cli' = [cli EXCEPT !.loaded = TRUE,
                                        !.target = {deployments[i] : i \in found}]
                  /\ IF found # None
                     THEN pc' = "cli_dryRun" /\ err' = err
                     ELSE Throw(Err("config", "target"), "cli_catch")
  /\ UNCHANGED <<options, config, kustomization, trace, bld, hk, svc, go, web, res, deployResult, wh, sqlx, npmrc>>

\* configLoader.load, then getDeploymentConfig(config, environment) for the
\* requested environment (config.environment); config.targetFound tells
\* whether the list has an entry for it.  cli.target is the environment of the
\* entry selected.
LoadConfig ==
  /\ pc = "cli_load"
  /\ \E loads \in BOOLEAN, deployments \in DeploymentLists :
       LET found == getDeploymentConfig(deployments, config.environment)
       IN /\ (found # None) = config.targetFound
          /\ IF ~loads
             THEN /\ Throw(Err("config", "load"), "cli_catch")
                  /\ cli' = cli
             ELSE /\ cli' = [cli EXCEPT !.loaded = TRUE,
                                        !.target = {deployments[i] : i \in found}]
                  /\ IF found # None
                     THEN pc' = "cli_dryRun" /\ err' = err
                     ELSE Throw(Err("config", "target"), "cli_catch")
  /\ UNCHANGED <<options, config, kustomization, trace, bld, hk, svc, go, web, res, deployResult, wh, sqlx, npmrc>>

NotifyDryRun ==
  /\ pc = "cli_dryRun"
  /\ trace' = IF options.dryRun THEN notify(trace, "dryRun") ELSE trace
  /\ pc' = "cli_deployStart"
  /\ UNCHANGED <<options, config, kustomization, err, cli, bld, hk, svc, go, web, res, deployResult, wh, sqlx, npmrc>>

NotifyDeployStart ==
  /\ pc = "cli_deployStart"
  /\ trace' = notify(trace, "deployStart")
  /\ pc' = "cli_gitHash"
  /\ UNCHANGED <<options, config, kustomization, err, cli, bld, hk, svc, go, web, res, deployResult, wh, sqlx, npmrc>>

\* `git rev-parse --short HEAD`, or Date.now().toString(36) when it fails.
ResolveGitHash ==
  /\ pc = "cli_gitHash"
  /\ \E ok \in BOOLEAN :
       cli' = [cli EXCEPT !.gitHash = Some(IF ok THEN "hash" ELSE "ts-cli")]
  /\ trace' = Append(trace, <<"git", "rev-parse">>)
  /\ pc' = "cli_build"
  /\ UNCHANGED <<options, config, kustomization, err, bld, hk, svc, go, web, res, deployResult, wh, sqlx, npmrc>>

\* A variant of the build phase that does not look at --skip-build.
BuildPhaseIgnoresSkip ==
  /\ pc = "cli_build"
  /\ IF config.build /\ config.type \notin skipBuildTypes
     THEN /\ trace' = notify(trace, "buildStart")
          /\ cli' = [cli EXCEPT !.buildService = TRUE, !.handlers = @ + 1]
          /\ pc' = "build"
     ELSE /\ trace' = IF options.skipBuild THEN notify(trace, "buildSkipped") ELSE trace
          /\ cli' = cli
          /\ pc' = "cli_upload"
  /\ UNCHANGED <<options, config, kustomization, err, bld, hk, svc, go, web, res, deployResult, wh, sqlx, npmrc>>

BuildPhase ==
  /\ pc = "cli_build"
  /\ IF ~options.skipBuild /\ config.build /\ config.type \notin skipBuildTypes
     THEN /\ trace' = notify(trace, "buildStart")
          /\ cli' = [cli EXCEPT !.buildService = TRUE, !.handlers = @ + 1]
          /\ pc' = "build"
     ELSE /\ trace' = IF options.skipBuild THEN notify(trace, "buildSkipped") ELSE trace
          /\ cli' = cli
          /\ pc' = "cli_upload"
  /\ UNCHANGED <<options, config, kustomization, err, bld, hk, svc, go, web, res, deployResult, wh, sqlx, npmrc>>

\* BuildService.build with sqlx.enabled = false (the schema default): the dry
\* run returns before any command; otherwise the service root is looked up and
\* the binary is built by cargo, or by buildWithDocker when useDocker is set.
Build ==
  /\ pc = "build"
  /\ \E gitOk \in BOOLEAN, outcome \in {"ok", "noRoot", "cargoFail", "noBinary"} :
       LET hash == IF gitOk THEN "hash" ELSE "ts-build"
           tr == Append(trace, <<"git", "rev-parse">>)
       IN /\ bld' = [bld EXCEPT !.gitHash = Some(hash)]
          /\ IF options.dryRun
             THEN /\ outcome = "ok"
                  /\ trace' = tr
                  /\ cli' = [cli EXCEPT !.buildResult = Some(hash)]
                  /\ pc' = "cli_buildDone" /\ err' = err
             ELSE IF outcome = "noRoot"
             THEN /\ trace' = tr /\ cli' = cli
                  /\ Throw(Err("build", "findServiceRoot"), "cli_catch")
             ELSE IF config.useDocker
             THEN /\ outcome = "ok"
                  /\ trace' = tr /\ cli' = cli
                  /\ pc' = "build_docker" /\ err' = err
             ELSE /\ trace' = Append(tr, <<"cargo", "build">>)
                  /\ IF outcome = "ok"
                     THEN /\ cli' = [cli EXCEPT !.buildResult = Some(hash)]
                          /\ pc' = "cli_buildDone" /\ err' = err
                     ELSE /\ cli' = cli
                          /\ Throw(Err("build", outcome), "cli_catch")
  /\ UNCHANGED <<options, config, kustomization, hk, svc, go, web, res, deployResult, wh, sqlx, npmrc>>

\* BuildService.buildWithDocker, then the binary check of build.
BuildWithDocker ==
  /\ pc = "build_docker"
  /\ \E outcome \in {"ok", "noDockerfile", "buildFail", "runFail", "noBinary"} :
       LET acquired == [bld EXCEPT !.containerName = TRUE]
           ran == IF outcome = "noDockerfile" THEN trace
                  ELSE IF outcome = "buildFail"
                       THEN Append(trace, <<"docker", "build builder image">>)
                       ELSE trace \o <<(<<"docker", "build builder image">>),
                                       (<<"docker", "run builder image">>)>>
       IN IF outcome \in {"noDockerfile", "buildFail", "runFail"}
          THEN /\ trace' = cleanup(ran, acquired)
               /\ bld' = cleaned(acquired)
               /\ cli' = cli
               /\ Throw(Err("build", outcome), "cli_catch")
          ELSE /\ trace' = IF config.cleanupContainer THEN cleanup(ran, acquired) ELSE ran
               /\ bld' = IF config.cleanupContainer THEN cleaned(acquired) ELSE acquired
               /\ IF outcome = "ok"
                  THEN /\ cli' = [cli EXCEPT !.buildResult = bld.gitHash]
                       /\ pc' = "cli_buildDone" /\ err' = err
                  ELSE /\ cli' = cli
                       /\ Throw(Err("build", outcome), "cli_catch")
  /\ UNCHANGED <<options, config, kustomization, hk, svc, go, web, res, deployResult, wh, sqlx, npmrc>>

BuildSuccess ==
  /\ pc = "cli_buildDone"
  /\ trace' = notify(trace, "buildSuccess")
  /\ pc' = "cli_upload"
  /\ UNCHANGED <<options, config, kustomization, err, cli, bld, hk, svc, go, web, res, deployResult, wh, sqlx, npmrc>>

UploadPhase ==
  /\ pc = "cli_upload"
  /\ IF ~options.skipUpload /\ config.type \notin skipUploadTypes
     THEN trace' = notify(trace, "uploadStart") /\ pc' = "upload"
     ELSE /\ trace' = IF options.skipUpload THEN notify(trace, "uploadSkipped") ELSE trace
          /\ pc' = "cli_deploy"
  /\ UNCHANGED <<options, config, kustomization, err, cli, bld, hk, svc, go, web, res, deployResult, wh, sqlx, npmrc>>

\* UploadService.upload: getBuildResult, then uploadLambdaZip for lambda-zip,
\* a marker for web, and an exception for every other type.
Upload ==
  /\ pc = "upload"
  /\ \E outcome \in {"ok", "zipFail", "bucketFail", "put1Fail", "put2Fail"} :
       LET tr == Append(trace, <<"git", "rev-parse">>)
           zip == Append(tr, <<"fs", "create zip">>)
           bucket == Append(zip, <<"s3", "ensureBucket">>)
           put1 == Append(bucket, <<"s3", "putObject">>)
           put2 == Append(put1, <<"s3", "putObject">>)
       IN IF config.type = "lambda-zip"
          THEN IF options.dryRun
               THEN /\ outcome = "ok"
                    /\ trace' = tr /\ pc' = "cli_uploadDone" /\ err' = err
               ELSE /\ trace' = CASE outcome = "zipFail" -> zip
                                  [] outcome = "bucketFail" -> bucket
                                  [] outcome = "put1Fail" -> put1
                                  [] OTHER -> put2
                    /\ IF outcome = "ok"
                       THEN pc' = "cli_uploadDone" /\ err' = err
                       ELSE Throw(Err("publish", outcome), "cli_catch")
          ELSE IF config.type = "web"
          THEN /\ outcome = "ok"
               /\ trace' = tr /\ pc' = "cli_uploadDone" /\ err' = err
          ELSE /\ outcome = "ok"
               /\ trace' = tr
               /\ Throw(Err("publish", "type not yet supported"), "cli_catch")
  /\ UNCHANGED <<options, config, kustomization, cli, bld, hk, svc, go, web, res, deployResult, wh, sqlx, npmrc>>

UploadSuccess ==
  /\ pc = "cli_uploadDone"
  /\ trace' = notify(trace, "uploadSuccess")
  /\ pc' = "cli_deploy"
  /\ UNCHANGED <<options, config, kustomization, err, cli, bld, hk, svc, go, web, res, deployResult, wh, sqlx, npmrc>>

DeployPhase ==
  /\ pc = "cli_deploy"
  /\ trace' = IF ~options.dryRun /\ config.type = "service"
              THEN notify(trace, "podsRestarting")
              ELSE IF ~options.dryRun /\ config.type = "web"
              THEN notify(trace, "webDeploying")
              ELSE trace
  /\ pc' = "dispatch"
  /\ UNCHANGED <<options, config, kustomization, err, cli, bld, hk, svc, go, web, res, deployResult, wh, sqlx, npmrc>>

\* DeploymentService.deploy of either class: the strategy the type selects,
\* or { skipped: true }.
Strategy(dispatcher, type, environment) ==
  IF type = "web" THEN "dw_entry"
  ELSE IF dispatcher = "web-service"
       THEN (IF type = "service" THEN "ds_entry" ELSE "skipped")
       ELSE CASE type = "container" -> "dc_entry"
              [] type = "npm" -> "dn_entry"
              [] type = "dockerhub" -> "dh_entry"
              [] type = "lambda-zip" /\ environment = "staging" -> "k8_entry"
              [] OTHER -> "skipped"

\* cli.deployHash is the revision argument of the call,
\* `buildResult?.gitHash || gitHash`.
Dispatch ==
  /\ pc = "dispatch"
  /\ cli' = [cli EXCEPT !.deployHash = IF cli.buildResult # None THEN cli.buildResult
                                       ELSE cli.gitHash]
  /\ LET to == Strategy(config.dispatcher, config.type, config.environment)
     IN IF to = "skipped"
        THEN /\ deployResult' = Some([EmptyResult EXCEPT !.skipped = TRUE])
             /\ pc' = "cli_success"
        ELSE /\ deployResult' = deployResult
             /\ pc' = to
  /\ UNCHANGED <<options, config, kustomization, trace, err, bld, hk, svc, go, web, res, wh, sqlx, npmrc>>

SuccessDetails ==
  /\ pc = "cli_success"
  /\ \E r \in deployResult :
       trace' = IF \E n \in r.podCount : n > 0
                THEN notify(trace, "podsReady")
                ELSE IF r.deployedFiles # None
                THEN notify(trace, "webDeployed")
                ELSE trace
  /\ pc' = "cli_deploySuccess"
  /\ UNCHANGED <<options, config, kustomization, err, cli, bld, hk, svc, go, web, res, deployResult, wh, sqlx, npmrc>>

\* cli.successHash is the gitHash detail of the notification,
\* `buildResult?.gitHash || 'unknown'`.
NotifyDeploySuccess ==
  /\ pc = "cli_deploySuccess"
  /\ trace' = notify(trace, "deploySuccess")
  /\ cli' = [cli EXCEPT !.successHash = IF cli.buildResult # None THEN cli.buildResult
                                        ELSE Some("unknown")]
  /\ pc' = "cli_cleanup"
  /\ UNCHANGED <<options, config, kustomization, err, bld, hk, svc, go, web, res, deployResult, wh, sqlx, npmrc>>

\* The action returns: the event loop drains and the process ends with 0.
CleanupAfterSuccess ==
  /\ pc = "cli_cleanup"
  /\ IF cli.buildService /\ config.build /\ config.cleanupContainer
     THEN /\ trace' = notify(cleanup(trace, bld), "cleanup")
          /\ bld' = cleaned(bld)
     ELSE UNCHANGED <<trace, bld>>
  /\ cli' = [cli EXCEPT !.exitCode = Some(0)]
  /\ pc' = "exit"
  /\ UNCHANGED <<options, config, kustomization, err, hk, svc, go, web, res, deployResult, wh, sqlx, npmrc>>

\* A variant of the catch block that exits without the deployError notification.
CliCatchSilent ==
  /\ pc = "cli_catch"
  /\ cli' = [cli EXCEPT !.exitCode = Some(1)]
  /\ pc' = "exit"
  /\ UNCHANGED <<options, config, kustomization, trace, err, bld, hk, svc, go, web, res, deployResult, wh, sqlx, npmrc>>

\* catch: deployError when a configuration was loaded, then process.exit(1).
\* With no target for the environment the notify helper itself throws
\* (getDeploymentConfig), the rejection is unhandled and the process ends
\* with status 1 without a notification.
CliCatch ==
  /\ pc = "cli_catch"
  /\ trace' = IF cli.loaded /\ config.targetFound
              THEN notify(trace, "deployError")
              ELSE trace
  /\ cli' = [cli EXCEPT !.exitCode = Some(1)]
  /\ pc' = "exit"
  /\ UNCHANGED <<options, config, kustomization, err, bld, hk, svc, go, web, res, deployResult, wh, sqlx, npmrc>>

\* process.on('exit'): every registered cleanup handler runs; cli.invoked
\* counts the handler calls.
ExitHandlers ==
  /\ pc = "exit"
  /\ IF cli.handlers > 0
     THEN trace' = cleanup(trace, bld) /\ bld' = cleaned(bld)
     ELSE UNCHANGED <<trace, bld>>
  /\ cli' = [cli EXCEPT !.invoked = @ + cli.handlers]
  /\ pc' = "exited"
  /\ UNCHANGED <<options, config, kustomization, err, hk, svc, go, web, res, deployResult, wh, sqlx, npmrc>>

\* A variant in which the signal ends the process at once, as it does when
\* no handler is installed: no exit event, no cleanup handler.
InterruptKills ==
  /\ pc \notin {"exit", "exited"}
  /\ \E signal \in {"SIGINT", "SIGTERM"} : trace' = Append(trace, <<"signal", signal>>)
  /\ cli' = [cli EXCEPT !.exitCode = Some(1)]
  /\ pc' = "exited"
  /\ UNCHANGED <<options, config, kustomization, err, bld, hk, svc, go, web, res, deployResult, wh, sqlx, npmrc>>

\* A variant of the signal handlers that undoes the rollout before it exits.
InterruptRollsBack ==
  /\ pc \notin {"exit", "exited"}
  /\ \E signal \in {"SIGINT", "SIGTERM"} :
       trace' = trace \o <<(<<"signal", signal>>), (<<"kubectl", "rollout undo">>)>>
  /\ cli' = [cli EXCEPT !.exitCode = Some(1)]
  /\ pc' = "exit"
  /\ UNCHANGED <<options, config, kustomization, err, bld, hk, svc, go, web, res, deployResult, wh, sqlx, npmrc>>

\* process.on('SIGINT') and process.on('SIGTERM'): a message, then
\* process.exit(1), which emits the exit event.  The handler runs between two
\* steps of the run, whichever they are.
Interrupt ==
  /\ pc \notin {"exit", "exited"}
  /\ \E signal \in {"SIGINT", "SIGTERM"} : trace' = Append(trace, <<"signal", signal>>)
  /\ cli' = [cli EXCEPT !.exitCode = Some(1)]
  /\ pc' = "exit"
  /\ UNCHANGED <<options, config, kustomization, err, bld, hk, svc, go, web, res, deployResult, wh, sqlx, npmrc>>

\* --------------------------------------------------- HooksService.executeHooks
\* A phase's hook list is a prefix of the hooks 1, 2, 3, ...; its length is
\* read when the phase is reached (an absent list and an empty one run nothing).
HookList(n) == [i \in 1..n |-> i]

ExecuteHooks(phase, n, ret, catch) ==
  /\ hk' = [list |-> HookList(n), idx |-> 1, phase |-> phase, ret |-> ret, catch |-> catch]
  /\ pc' = "hooks"

\* A variant of the loop that logs a failing hook and goes on to the next one.
RunHookContinues ==
  /\ pc = "hooks"
  /\ hk.idx <= Len(hk.list)
  /\ trace' = Append(trace, <<"hook", hk.phase, hk.list[hk.idx]>>)
  /\ \E ok \in BOOLEAN :
       IF ok \/ hk.idx < Len(hk.list)
       THEN /\ hk' = [hk EXCEPT !.idx = @ + 1]
            /\ pc' = pc
            /\ err' = IF ok THEN err ELSE Err("hook", <<hk.phase, hk.list[hk.idx]>>)
       ELSE /\ hk' = hk
            /\ Throw(Err("hook", <<hk.phase, hk.list[hk.idx]>>), hk.catch)
  /\ UNCHANGED <<options, config, kustomization, cli, bld, svc, go, web, res, deployResult, wh, sqlx, npmrc>>

\* One iteration of the loop: execSync(hook.command), an exception on failure.
RunHook ==
  /\ pc = "hooks"
  /\ hk.idx <= Len(hk.list)
  /\ trace' = Append(trace, <<"hook", hk.phase, hk.list[hk.idx]>>)
  /\ \E ok \in BOOLEAN :
       IF ok
       THEN /\ hk' = [hk EXCEPT !.idx = @ + 1]
            /\ pc' = pc /\ err' = err
       ELSE /\ hk' = hk
            /\ Throw(Err("hook", <<hk.phase, hk.list[hk.idx]>>), hk.catch)
  /\ UNCHANGED <<options, config, kustomization, cli, bld, svc, go, web, res, deployResult, wh, sqlx, npmrc>>

HooksDone ==
  /\ pc = "hooks"
  /\ hk.idx > Len(hk.list)
  /\ pc' = hk.ret
  /\ UNCHANGED <<options, config, kustomization, trace, err, cli, bld, hk, svc, go, web, res, deployResult, wh, sqlx, npmrc>>

\* ------------------------------------------- DeploymentService.deployService
DeployService ==
  /\ pc = "ds_entry"
  /\ IF ~config.typeConfig
     THEN Throw(Err("config", "deployment.service"), "cli_catch") /\ hk' = hk
     ELSE /\ \E n \in 0..MaxHooks : ExecuteHooks("pre_build", n, "sd_entry", "cli_catch")
          /\ err' = err
  /\ UNCHANGED <<options, config, kustomization, trace, cli, bld, svc, go, web, res, deployResult, wh, sqlx, npmrc>>

DeployServicePostBuild ==
  /\ pc = "ds_post"
  /\ \E n \in 0..MaxHooks : ExecuteHooks("post_build", n, "ds_return", "cli_catch")
  /\ UNCHANGED <<options, config, kustomization, trace, err, cli, bld, svc, go, web, res, deployResult, wh, sqlx, npmrc>>

DeployServiceReturn ==
  /\ pc = "ds_return"
  /\ deployResult' = svc.result
  /\ pc' = "cli_success"
  /\ UNCHANGED <<options, config, kustomization, trace, err, cli, bld, hk, svc, go, web, res, wh, sqlx, npmrc>>

\* ---------------------------------------------- ServiceDeploymentService.deploy
\* A command of the try block failed: the exception goes to the catch clause.
SvcFail(step) ==
  /\ Throw(Err("deploy", step), "sd_catch")
  /\ svc' = [svc EXCEPT !.failedAt = step, !.origErr = Err("deploy", step)]

ServiceDeploy ==
  /\ pc = "sd_entry"
  /\ IF options.dryRun
     THEN /\ svc' = [svc EXCEPT !.result = Some([EmptyResult EXCEPT !.podCount = Some(0)])]
          /\ pc' = "ds_post"
     ELSE /\ svc' = svc
          /\ pc' = "sd_build"
  /\ UNCHANGED <<options, config, kustomization, trace, err, cli, bld, hk, go, web, res, deployResult, wh, sqlx, npmrc>>

\* Step 1: RustBuildService.buildDockerImage.
ServiceBuild ==
  /\ pc = "sd_build"
  /\ trace' = Append(trace, <<"docker", "build">>)
  /\ \E ok \in BOOLEAN :
       IF ok THEN pc' = "sd_tag" /\ UNCHANGED <<err, svc>> ELSE SvcFail("build")
  /\ UNCHANGED <<options, config, kustomization, cli, bld, hk, go, web, res, deployResult, wh, sqlx, npmrc>>

\* The two `docker tag` commands.
ServiceTag ==
  /\ pc = "sd_tag"
  /\ \E done \in 0..2 :
       /\ trace' = trace \o [i \in 1..(IF done = 2 THEN 2 ELSE done + 1) |-> <<"docker", "tag">>]
       /\ IF done = 2 THEN pc' = "sd_login" /\ UNCHANGED <<err, svc>> ELSE SvcFail("tag")
  /\ UNCHANGED <<options, config, kustomization, cli, bld, hk, go, web, res, deployResult, wh, sqlx, npmrc>>

\* Step 2: docker login when the registry has credentials.
ServiceLogin ==
  /\ pc = "sd_login"
  /\ \E credentials \in BOOLEAN, ok \in BOOLEAN :
       IF ~credentials
       THEN ok /\ pc' = "sd_push" /\ UNCHANGED <<trace, err, svc>>
       ELSE /\ trace' = Append(trace, <<"docker", "login">>)
            /\ IF ok THEN pc' = "sd_push" /\ UNCHANGED <<err, svc>> ELSE SvcFail("login")
  /\ UNCHANGED <<options, config, kustomization, cli, bld, hk, go, web, res, deployResult, wh, sqlx, npmrc>>

\* The two `docker push` commands.
ServicePush ==
  /\ pc = "sd_push"
  /\ \E done \in 0..2 :
       /\ trace' = trace \o [i \in 1..(IF done = 2 THEN 2 ELSE done + 1) |-> <<"docker", "push">>]
       /\ IF done = 2 THEN pc' = "sd_migrate" /\ UNCHANGED <<err, svc>> ELSE SvcFail("push")
  /\ UNCHANGED <<options, config, kustomization, cli, bld, hk, go, web, res, deployResult, wh, sqlx, npmrc>>

\* The kubectl commands runMigrationJob issues for each way it can end.
MigrationCommands(outcome) ==
  LET apply == <<"kubectl", "apply job">>
      wait == <<"kubectl", "wait job">>
      get == <<"kubectl", "get job">>
      logs == <<"kubectl", "logs job">>
      delete == <<"kubectl", "delete job">>
  IN CASE outcome = "applyFail" -> <<apply>>
       [] outcome = "waitFail" -> <<apply, wait>>
       [] outcome = "getFail" -> <<apply, wait, get>>
       [] outcome \in {"notComplete", "logsFail"} -> <<apply, wait, get, logs>>
       [] outcome \in {"deleteFail", "complete"} -> <<apply, wait, get, delete>>

\* A variant of the loop with the condition `i <= maxRetries`.
VerifyHealthAttemptOneMore ==
  /\ pc = "sd_health"
  /\ svc.i <= maxRetries
  /\ \E response \in {"throws", "no pod", "invalid", "unhealthy", "healthy"},
        hashMismatch \in BOOLEAN, unhealthyDependency \in BOOLEAN :
       IF response = "healthy"
       THEN /\ svc' = [svc EXCEPT !.healthResult = Some(TRUE), !.i = 0,
                                  !.healthData = Some([hashMismatch |-> hashMismatch,
                                                       unhealthyDependency |-> unhealthyDependency])]
            /\ pc' = "sd_podCount"
       ELSE /\ ~hashMismatch /\ ~unhealthyDependency
            /\ svc' = [svc EXCEPT !.i = @ + 1]
            /\ pc' = pc
  /\ UNCHANGED <<options, config, kustomization, trace, err, cli, bld, hk, go, web, res, deployResult, wh, sqlx, npmrc>>

\* A variant of step 3 that restarts the deployment whatever the job's
\* terminal condition was.
ServiceMigrateUnchecked ==
  /\ pc = "sd_migrate"
  /\ \E outcome \in {"applyFail", "waitFail", "getFail", "notComplete", "logsFail",
                     "deleteFail", "complete"} :
       /\ trace' = trace \o MigrationCommands(outcome)
       /\ IF outcome \in {"complete", "notComplete"}
          THEN /\ svc' = [svc EXCEPT !.migrationResult = Some(outcome = "complete")]
               /\ pc' = "sd_restart" /\ err' = err
          ELSE SvcFail(outcome)
  /\ UNCHANGED <<options, config, kustomization, cli, bld, hk, go, web, res, deployResult, wh, sqlx, npmrc>>

\* Step 3: runMigrationJob and the check of its result.  It returns true,
\* returns false (terminal condition other than Complete) or throws.
ServiceMigrate ==
  /\ pc = "sd_migrate"
  /\ \E outcome \in {"applyFail", "waitFail", "getFail", "notComplete", "logsFail",
                     "deleteFail", "complete"} :
       /\ trace' = trace \o MigrationCommands(outcome)
       /\ IF outcome = "complete"
          THEN /\ svc' = [svc EXCEPT !.migrationResult = Some(TRUE)]
               /\ pc' = "sd_restart" /\ err' = err
          ELSE IF outcome = "notComplete"
          THEN /\ Throw(Err("deploy", "Migration job failed"), "sd_catch")
               /\ svc' = [svc EXCEPT !.migrationResult = Some(FALSE),
                                     !.failedAt = "migration",
                                     !.origErr = Err("deploy", "Migration job failed")]
          ELSE SvcFail(outcome)
  /\ UNCHANGED <<options, config, kustomization, cli, bld, hk, go, web, res, deployResult, wh, sqlx, npmrc>>

\* Step 4: kubectl rollout restart.
ServiceRolloutRestart ==
  /\ pc = "sd_restart"
  /\ trace' = Append(trace, <<"kubectl", "rollout restart">>)
  /\ \E ok \in BOOLEAN :
       IF ok THEN pc' = "sd_status" /\ UNCHANGED <<err, svc>> ELSE SvcFail("rollout restart")
  /\ UNCHANGED <<options, config, kustomization, cli, bld, hk, go, web, res, deployResult, wh, sqlx, npmrc>>

\* kubectl rollout status --timeout=300s.
ServiceRolloutStatus ==
  /\ pc = "sd_status"
  /\ trace' = Append(trace, <<"kubectl", "rollout status">>)
  /\ \E ok \in BOOLEAN :
       IF ok THEN pc' = "sd_health" /\ UNCHANGED <<err, svc>> ELSE SvcFail("rollout status")
  /\ UNCHANGED <<options, config, kustomization, cli, bld, hk, go, web, res, deployResult, wh, sqlx, npmrc>>

\* A variant of the loop in which a healthy response from another revision
\* counts as a failed attempt.
VerifyHealthAttemptStrict ==
  /\ pc = "sd_health"
  /\ svc.i < maxRetries
  /\ \E response \in {"throws", "no pod", "invalid", "unhealthy", "healthy"},
        hashMismatch \in BOOLEAN, unhealthyDependency \in BOOLEAN :
       IF response = "healthy"
       THEN /\ svc' = [svc EXCEPT !.healthResult = IF hashMismatch THEN @ ELSE Some(TRUE),
                                  !.i = IF hashMismatch THEN @ + 1 ELSE 0,
                                  !.healthData = Some([hashMismatch |-> hashMismatch,
                                                       unhealthyDependency |-> unhealthyDependency])]
            /\ pc' = IF hashMismatch THEN pc ELSE "sd_podCount"
       ELSE /\ ~hashMismatch /\ ~unhealthyDependency
            /\ svc' = [svc EXCEPT !.i = @ + 1]
            /\ pc' = pc
  /\ UNCHANGED <<options, config, kustomization, trace, err, cli, bld, hk, go, web, res, deployResult, wh, sqlx, npmrc>>

\* Step 5, one iteration of verifyHealth's loop: the pod lookup, then the
\* health request.  Only a response with status healthy ends the loop, and it
\* does whatever its git_hash and dependencies are: a hash other than the
\* expected one is a warning, a dependency that is not healthy a log line.
\* svc.healthData keeps those two facts of the response until deploy has
\* gone on.  The commands of the polling loop are counted in svc.i and not
\* listed in trace; the counter is a local of verifyHealth and is gone when
\* it returns.
VerifyHealthAttempt ==
  /\ pc = "sd_health"
  /\ svc.i < maxRetries
  /\ \E response \in {"throws", "no pod", "invalid", "unhealthy", "healthy"},
        hashMismatch \in BOOLEAN, unhealthyDependency \in BOOLEAN :
       IF response = "healthy"
       THEN /\ svc' = [svc EXCEPT !.healthResult = Some(TRUE), !.i = 0,
                                  !.healthData = Some([hashMismatch |-> hashMismatch,
                                                       unhealthyDependency |-> unhealthyDependency])]
            /\ pc' = "sd_podCount"
       ELSE /\ ~hashMismatch /\ ~unhealthyDependency
            /\ svc' = [svc EXCEPT !.i = @ + 1]
            /\ pc' = pc
  /\ UNCHANGED <<options, config, kustomization, trace, err, cli, bld, hk, go, web, res, deployResult, wh, sqlx, npmrc>>

\* The loop ran out: verifyHealth returns false and deploy throws.
VerifyHealthExhausted ==
  /\ pc = "sd_health"
  /\ svc.i >= maxRetries
  /\ Throw(Err("deploy", "Health check verification failed"), "sd_catch")
  /\ svc' = [svc EXCEPT !.healthResult = Some(FALSE), !.failedAt = "health",
                        !.origErr = Err("deploy", "Health check verification failed")]
  /\ UNCHANGED <<options, config, kustomization, trace, cli, bld, hk, go, web, res, deployResult, wh, sqlx, npmrc>>

\* `kubectl get pods ... | wc -l` (the status of the pipeline is that of wc)
\* and the result.
ServicePodCount ==
  /\ pc = "sd_podCount"
  /\ trace' = Append(trace, <<"kubectl", "get pods">>)
  /\ \E n \in 0..MaxPods :
       svc' = [svc EXCEPT !.healthData = None, !.result =
                 Some([EmptyResult EXCEPT !.podCount = Some(n), !.migrationCompleted = TRUE,
                                          !.deploymentRestarted = TRUE,
                                          !.healthCheckPassed = TRUE])]
  /\ pc' = "ds_post"
  /\ UNCHANGED <<options, config, kustomization, err, cli, bld, hk, go, web, res, deployResult, wh, sqlx, npmrc>>

\* A variant of the catch block in which a failed rollback replaces the error.
ServiceRollbackMasksError ==
  /\ pc = "sd_catch"
  /\ trace' = Append(trace, <<"kubectl", "rollout undo">>)
  /\ \E rollbackOk \in BOOLEAN :
       /\ svc' = [svc EXCEPT !.rollback = Some(rollbackOk)]
       /\ Throw(IF rollbackOk THEN err ELSE Err("deploy", "rollout undo"), "cli_catch")
  /\ UNCHANGED <<options, config, kustomization, cli, bld, hk, go, web, res, deployResult, wh, sqlx, npmrc>>

\* catch: kubectl rollout undo, whose own failure is only logged, then
\* `throw error`, which no caller catches before the deploy action.
\* svc.rollback keeps whether the rollback command succeeded.
ServiceRollback ==
  /\ pc = "sd_catch"
  /\ trace' = Append(trace, <<"kubectl", "rollout undo">>)
  /\ \E rollbackOk \in BOOLEAN :
       /\ svc' = [svc EXCEPT !.rollback = Some(rollbackOk)]
       /\ Throw(err, "cli_catch")
  /\ UNCHANGED <<options, config, kustomization, cli, bld, hk, go, web, res, deployResult, wh, sqlx, npmrc>>

\* ----------------------------------------------- DeploymentService.deployWeb
\* A variant of deployWeb that goes on to the deployment when a pre_deploy
\* hook fails.
DeployWebIgnoresHooks ==
  /\ pc = "dw_entry"
  /\ IF ~config.typeConfig
     THEN Throw(Err("config", "deployment.web"), "cli_catch") /\ hk' = hk
     ELSE /\ \E n \in 0..MaxHooks : ExecuteHooks("pre_deploy", n, "wd_build", "wd_build")
          /\ err' = err
  /\ UNCHANGED <<options, config, kustomization, trace, cli, bld, svc, go, web, res, deployResult, wh, sqlx, npmrc>>

DeployWeb ==
  /\ pc = "dw_entry"
  /\ IF ~config.typeConfig
     THEN Throw(Err("config", "deployment.web"), "cli_catch") /\ hk' = hk
     ELSE /\ \E n \in 0..MaxHooks : ExecuteHooks("pre_deploy", n, "wd_build", "cli_catch")
          /\ err' = err
  /\ UNCHANGED <<options, config, kustomization, trace, cli, bld, svc, go, web, res, deployResult, wh, sqlx, npmrc>>

\* WebDeploymentService.deploy, step 1: the build command, when one is configured.
WebBuildCommand ==
  /\ pc = "wd_build"
  /\ \E configured \in BOOLEAN, ok \in BOOLEAN :
       IF configured /\ ~options.dryRun
       THEN /\ trace' = Append(trace, <<"sh", "web build command">>)
            /\ IF ok THEN pc' = "wd_scan" /\ err' = err
                     ELSE Throw(Err("build", "web build command"), "cli_catch")
       ELSE ok /\ pc' = "wd_scan" /\ UNCHANGED <<trace, err>>
  /\ UNCHANGED <<options, config, kustomization, cli, bld, hk, svc, go, web, res, deployResult, wh, sqlx, npmrc>>

\* Step 2: the files of the build directory, or the three mock files of a dry run.
WebScan ==
  /\ pc = "wd_scan"
  /\ IF options.dryRun
     THEN /\ web' = [web EXCEPT !.files = mockFiles]
          /\ pc' = "wd_upload" /\ err' = err
     ELSE \E found \in BOOLEAN, n \in 0..MaxFiles :
            IF found
            THEN /\ web' = [web EXCEPT !.files = n]
                 /\ pc' = "wd_upload" /\ err' = err
            ELSE /\ n = 0 /\ web' = web
                 /\ Throw(Err("deploy", "Build directory not found"), "cli_catch")
  /\ UNCHANGED <<options, config, kustomization, trace, cli, bld, hk, svc, go, res, deployResult, wh, sqlx, npmrc>>

\* Step 3, one iteration of the upload loop.
WebPutObject ==
  /\ pc = "wd_upload"
  /\ web.deployedFiles < web.files
  /\ IF options.dryRun
     THEN /\ web' = [web EXCEPT !.deployedFiles = @ + 1]
          /\ UNCHANGED <<trace, err, pc>>
     ELSE /\ trace' = Append(trace, <<"s3", "putObject">>)
          /\ \E ok \in BOOLEAN :
               IF ok
               THEN /\ web' = [web EXCEPT !.deployedFiles = @ + 1]
                    /\ UNCHANGED <<err, pc>>
               ELSE /\ web' = web
                    /\ Throw(Err("publish", "putObject"), "cli_catch")
  /\ UNCHANGED <<options, config, kustomization, cli, bld, hk, svc, go, res, deployResult, wh, sqlx, npmrc>>

\* Step 4: the CloudFront invalidation, whose failure is only logged.
WebInvalidate ==
  /\ pc = "wd_upload"
  /\ web.deployedFiles >= web.files
  /\ \E configured \in BOOLEAN, ok \in BOOLEAN :
       IF ~configured
       THEN ok /\ UNCHANGED <<trace, web, res>>
       ELSE IF options.dryRun
       THEN /\ ok /\ trace' = trace
            /\ web' = [web EXCEPT !.invalidationId = Some("dry-run-invalidation-id")]
       ELSE /\ trace' = Append(trace, <<"cdn", "createInvalidation">>)
            /\ web' = [web EXCEPT !.invalidationId = IF ok THEN Some("id") ELSE None]
  /\ pc' = "wd_verify"
  /\ UNCHANGED <<options, config, kustomization, err, cli, bld, hk, svc, go, res, deployResult, wh, sqlx, npmrc>>

\* `webConfig.verification?.minioCheck?.minFiles || 5`
MinFiles(configured) ==
  IF configured = None \/ configured = Some(0) THEN defaultMinFiles
  ELSE CHOOSE n \in configured : TRUE

\* Step 5, the conditions of the file-count check: it runs unless this is a
\* dry run or verification.enabled or minioCheck.enabled is false; minFiles is
\* verification.minioCheck.minFiles as heimdizzy.yml has it (None when it has
\* no minioCheck).
NoCheck == [run |-> FALSE, minFiles |-> None]

WebVerification ==
  /\ pc = "wd_verify"
  /\ \E enabled \in BOOLEAN, minioCheck \in BOOLEAN,
        minFiles \in {None} \cup {Some(n) : n \in 0..MaxMinFiles} :
       LET run == enabled /\ ~options.dryRun /\ minioCheck
       IN /\ (~run => minFiles = None)
          /\ web' = [web EXCEPT !.check = [run |-> run, minFiles |-> minFiles]]
  /\ pc' = "wd_check"
  /\ UNCHANGED <<options, config, kustomization, trace, err, cli, bld, hk, svc, go, res, deployResult, wh, sqlx, npmrc>>

\* Step 5: the file-count check, then the result.
WebVerify ==
  /\ pc = "wd_check"
  /\ IF web.check.run /\ web.deployedFiles < MinFiles(web.check.minFiles)
     THEN Throw(Err("verify", "file count"), "cli_catch")
     ELSE pc' = "dw_post" /\ err' = err
  /\ web' = [web EXCEPT !.check = NoCheck]
  /\ UNCHANGED <<options, config, kustomization, trace, cli, bld, hk, svc, go, res, deployResult, wh, sqlx, npmrc>>

DeployWebPostDeploy ==
  /\ pc = "dw_post"
  /\ \E n \in 0..MaxHooks : ExecuteHooks("post_deploy", n, "dw_return", "cli_catch")
  /\ UNCHANGED <<options, config, kustomization, trace, err, cli, bld, svc, go, web, res, deployResult, wh, sqlx, npmrc>>

DeployWebReturn ==
  /\ pc = "dw_return"
  /\ deployResult' = Some([EmptyResult EXCEPT !.deployedFiles = Some(web.deployedFiles),
                                              !.invalidationId = web.invalidationId])
  /\ pc' = "cli_success"
  /\ UNCHANGED <<options, config, kustomization, trace, err, cli, bld, hk, svc, go, web, res, wh, sqlx, npmrc>>

\* ------------------------------------------ DeploymentService.deployContainer
\* The commands of a list that execSync ran when `done` of them succeeded:
\* the successful ones and, if any is left, the one that threw.
Ran(cmds, done) ==
  SubSeq(cmds, 1, IF done >= Len(cmds) THEN Len(cmds) ELSE done + 1)

DeployContainer ==
  /\ pc = "dc_entry"
  /\ IF ~config.typeConfig
     THEN Throw(Err("config", "deployment.container"), "cli_catch") /\ hk' = hk
     ELSE /\ \E n \in 0..MaxHooks :
               ExecuteHooks("pre_build", n,
                            IF config.gitops THEN "go_entry" ELSE "cd_entry", "cli_catch")
          /\ err' = err
  /\ UNCHANGED <<options, config, kustomization, trace, cli, bld, svc, go, web, res, deployResult, wh, sqlx, npmrc>>

\* `podCount: 0, container: {..., manifestsApplied: gitOpsResult.manifestUpdated}`
\* and `podCount: containerResult.podCount, container: containerResult`.
DeployContainerReturn ==
  /\ pc = "dc_return"
  /\ deployResult' = res
  /\ pc' = "cli_success"
  /\ UNCHANGED <<options, config, kustomization, trace, err, cli, bld, hk, svc, go, web, res, wh, sqlx, npmrc>>

\* ------------------------------------ GitOpsContainerDeploymentService.deploy
GitOpsDeploy ==
  /\ pc = "go_entry"
  /\ IF options.dryRun
     THEN /\ res' = Some([EmptyResult EXCEPT !.podCount = Some(0)])
          /\ pc' = "dc_return" /\ hk' = hk
     ELSE /\ \E n \in 0..MaxHooks : ExecuteHooks("pre_deploy", n, "go_build", "go_catch")
          /\ res' = res
  /\ UNCHANGED <<options, config, kustomization, trace, err, cli, bld, svc, go, web, deployResult, wh, sqlx, npmrc>>

\* Step 1: the Dockerfile check, `docker build`, then the post_build hooks.
GitOpsBuild ==
  /\ pc = "go_build"
  /\ \E dockerfile \in BOOLEAN, ok \in BOOLEAN :
       IF ~dockerfile
       THEN /\ ok /\ Throw(Err("build", "Dockerfile not found"), "go_catch")
            /\ UNCHANGED <<trace, hk>>
       ELSE /\ trace' = Append(trace, <<"docker", "build">>)
            /\ IF ok
               THEN /\ \E n \in 0..MaxHooks :
                         ExecuteHooks("post_build", n, "go_tag", "go_catch")
                    /\ err' = err
               ELSE Throw(Err("build", "docker build"), "go_catch") /\ hk' = hk
  /\ UNCHANGED <<options, config, kustomization, cli, bld, svc, go, web, res, deployResult, wh, sqlx, npmrc>>

\* Step 2: the two `docker tag` commands.
GitOpsTag ==
  /\ pc = "go_tag"
  /\ \E done \in 0..2 :
       /\ trace' = trace \o Ran(<<<<"docker", "tag">>, <<"docker", "tag">>>>, done)
       /\ IF done = 2 THEN pc' = "go_push" /\ err' = err
                      ELSE Throw(Err("publish", "docker tag"), "go_catch")
  /\ UNCHANGED <<options, config, kustomization, cli, bld, hk, svc, go, web, res, deployResult, wh, sqlx, npmrc>>

\* parseInt of a trimmed string: the number its leading digits spell, NaN
\* (None) when it starts with no digit.
DigitValue(c) == IF c = "3" THEN 3 ELSE 0

RECURSIVE Decimal(_)
Decimal(digits) ==
  IF digits = <<>> THEN 0
  ELSE 10 * Decimal(SubSeq(digits, 1, Len(digits) - 1)) + DigitValue(digits[Len(digits)])

ParseInt(s) ==
  LET isDigit(c) == c \in {"0", "3"}
      n == CHOOSE k \in 0..Len(s) :
             /\ \A i \in 1..k : isDigit(s[i])
             /\ (k < Len(s) => ~isDigit(s[k + 1]))
  IN IF n = 0 THEN None ELSE Some(Decimal(SubSeq(s, 1, n)))

\* `parseInt(nodePortOutput) || 30500`: NaN and 0 are falsy.
NodePort(nodePortOutput) ==
  IF \E n \in ParseInt(nodePortOutput) : n # 0
  THEN CHOOSE n \in ParseInt(nodePortOutput) : TRUE
  ELSE defaultNodePort

\* Step 3, the registry to push to: an endpoint inside the cluster is reached
\* through localhost and the NodePort, configured or queried with kubectl
\* (an exception of the query is not caught here); any other endpoint is
\* pushed to directly.
GitOpsNodePort ==
  /\ pc = "go_push"
  /\ \E inCluster \in BOOLEAN, registryNodePort \in {None} \cup {Some(p) : p \in NodePorts} :
       /\ inCluster \/ registryNodePort = None
       /\ IF ~inCluster
          THEN /\ go' = NoPush
               /\ trace' = trace
               /\ pc' = "go_push_images" /\ err' = err
          ELSE IF registryNodePort # None
          THEN /\ go' = [inCluster |-> TRUE, registryNodePort |-> registryNodePort,
                          nodePortOutput |-> None, nodePort |-> registryNodePort]
               /\ trace' = trace
               /\ pc' = "go_push_images" /\ err' = err
          ELSE /\ trace' = Append(trace, <<"kubectl", "get svc">>)
               /\ \E queried \in BOOLEAN :
                    IF queried
                    THEN /\ \E nodePortOutput \in NodePortOutputs :
                              go' = [inCluster |-> TRUE, registryNodePort |-> None,
                                     nodePortOutput |-> Some(nodePortOutput),
                                     nodePort |-> Some(NodePort(nodePortOutput))]
                         /\ pc' = "go_push_images" /\ err' = err
                    ELSE /\ go' = [NoPush EXCEPT !.inCluster = TRUE]
                         /\ Throw(Err("publish", "get svc"), "go_catch")
  /\ UNCHANGED <<options, config, kustomization, cli, bld, hk, svc, web, res, deployResult, wh, sqlx, npmrc>>

\* The commands that push both tags: through the NodePort the image is
\* tagged for localhost:<nodePort> first.
PushCommands(inCluster) ==
  LET tag == <<"docker", "tag">>
      push == <<"docker", "push">>
  IN IF inCluster THEN <<tag, tag, push, push>> ELSE <<push, push>>

\* The block of the in-cluster branch ends with the pushes, and its locals
\* with it.
GitOpsPush ==
  /\ pc = "go_push_images"
  /\ LET cmds == PushCommands(go.inCluster)
     IN \E done \in 0..Len(cmds) :
          /\ trace' = trace \o Ran(cmds, done)
          /\ IF done = Len(cmds) THEN pc' = "go_kustomize" /\ err' = err
             ELSE Throw(Err("publish", cmds[done + 1][2]), "go_catch")
  /\ go' = NoPush
  /\ UNCHANGED <<options, config, kustomization, cli, bld, hk, svc, web, res, deployResult, wh, sqlx, npmrc>>

\* Step 4: kustomization.yaml is created, or read, patched and written back.
GitOpsKustomization ==
  /\ pc = "go_kustomize"
  /\ \E found \in BOOLEAN, outcome \in {"readFail", "writeFail", "ok"} :
       /\ found \/ outcome # "readFail"
       /\ trace' = IF outcome = "readFail" THEN trace
                   ELSE Append(trace, <<"fs", "write kustomization">>)
       /\ IF outcome = "ok" THEN pc' = "go_commit" /\ err' = err
          ELSE Throw(Err("deploy", outcome), "go_catch")
  /\ UNCHANGED <<options, config, kustomization, cli, bld, hk, svc, go, web, res, deployResult, wh, sqlx, npmrc>>

\* The git commands of step 5 and what the strategy prints after them.
CommitCommands == <<<<"git", "add">>, <<"git", "commit">>, <<"git", "push">>>>
Committed(tr, done, nothing) ==
  (tr \o Ran(CommitCommands, done))
    \o <<(<<"log", IF done = Len(CommitCommands) THEN "committed and pushed"
                   ELSE IF nothing THEN "nothing to commit"
                   ELSE "commit manually">>)>>

\* A variant of step 5 in which a git failure other than "nothing to commit"
\* fails the deployment.
GitOpsCommitFatal ==
  /\ pc = "go_commit"
  /\ \E done \in 0..Len(CommitCommands), nothing \in BOOLEAN :
       /\ (nothing => done = 1)
       /\ IF done < Len(CommitCommands) /\ ~nothing
          THEN /\ trace' = trace \o Ran(CommitCommands, done)
               /\ Throw(Err("deploy", CommitCommands[done + 1][2]), "go_catch")
               /\ hk' = hk
          ELSE /\ trace' = Committed(trace, done, nothing)
               /\ \E n \in 0..MaxHooks : ExecuteHooks("post_deploy", n, "go_rmi", "go_catch")
               /\ err' = err
  /\ UNCHANGED <<options, config, kustomization, cli, bld, svc, go, web, res, deployResult, wh, sqlx, npmrc>>

\* Step 5: git add, commit, push in a try of their own.  When one of them
\* throws, the catch prints one of two messages, by whether the error message
\* contains "nothing to commit" (as that of a failed `git commit` can), and
\* the strategy goes on; then the post_deploy hooks.
GitOpsCommit ==
  /\ pc = "go_commit"
  /\ \E done \in 0..Len(CommitCommands), nothing \in BOOLEAN :
       /\ (nothing => done = 1)
       /\ trace' = Committed(trace, done, nothing)
  /\ \E n \in 0..MaxHooks : ExecuteHooks("post_deploy", n, "go_rmi", "go_catch")
  /\ UNCHANGED <<options, config, kustomization, err, cli, bld, svc, go, web, res, deployResult, wh, sqlx, npmrc>>

\* The removal of the local image, whose failure is ignored, and the result.
GitOpsCleanup ==
  /\ pc = "go_rmi"
  /\ trace' = Append(trace, <<"docker", "rmi">>)
  /\ res' = Some([EmptyResult EXCEPT !.podCount = Some(0), !.manifestsApplied = TRUE])
  /\ pc' = "dc_return"
  /\ UNCHANGED <<options, config, kustomization, err, cli, bld, hk, svc, go, web, deployResult, wh, sqlx, npmrc>>

GitOpsCatch ==
  /\ pc = "go_catch"
  /\ Throw(Wrap(err, "GitOps container deployment failed"), "cli_catch")
  /\ go' = NoPush
  /\ UNCHANGED <<options, config, kustomization, trace, cli, bld, hk, svc, web, res, deployResult, wh, sqlx, npmrc>>

\* ------------------------------------------ ContainerDeploymentService.deploy
ContainerDeploy ==
  /\ pc = "cd_entry"
  /\ IF options.dryRun
     THEN /\ res' = Some([EmptyResult EXCEPT !.podCount = Some(0)])
          /\ pc' = "dc_return"
     ELSE /\ res' = res
          /\ pc' = "cd_build"
  /\ UNCHANGED <<options, config, kustomization, trace, err, cli, bld, hk, svc, go, web, deployResult, wh, sqlx, npmrc>>

\* Steps 1 to 3: docker build, the two tags, then the push.
ContainerBuildPush ==
  /\ pc = "cd_build"
  /\ \E inCluster \in BOOLEAN :
       LET cmds == <<<<"docker", "build">>, <<"docker", "tag">>, <<"docker", "tag">>>>
                   \o (IF inCluster THEN <<<<"kubectl", "get svc">>>> ELSE <<>>)
                   \o PushCommands(inCluster)
       IN \E done \in 0..Len(cmds) :
            /\ trace' = trace \o Ran(cmds, done)
            /\ IF done = Len(cmds) THEN pc' = "cd_apply" /\ err' = err
               ELSE Throw(Err(IF done = 0 THEN "build" ELSE "publish", cmds[done + 1][2]),
                          "cd_catch")
  /\ UNCHANGED <<options, config, kustomization, cli, bld, hk, svc, go, web, res, deployResult, wh, sqlx, npmrc>>

\* Step 4: existing manifests are applied and the image set, or generated
\* manifests are applied.
ContainerApply ==
  /\ pc = "cd_apply"
  /\ \E existing \in BOOLEAN :
       LET cmds == IF existing
                   THEN <<<<"kubectl", "apply -k">>, <<"kubectl", "set image">>,
                          <<"kubectl", "rollout restart">>>>
                   ELSE <<<<"kubectl", "apply -f">>, <<"kubectl", "apply -f">>>>
       IN \E done \in 0..Len(cmds) :
            /\ trace' = trace \o Ran(cmds, done)
            /\ IF done = Len(cmds) THEN pc' = "cd_status" /\ err' = err
               ELSE Throw(Err("deploy", cmds[done + 1][2]), "cd_catch")
  /\ UNCHANGED <<options, config, kustomization, cli, bld, hk, svc, go, web, res, deployResult, wh, sqlx, npmrc>>

\* Steps 5 and 6: the rollout status, whose failure is only logged, the pod
\* count, and the removal of the local image, whose failure is ignored.
ContainerStatus ==
  /\ pc = "cd_status"
  /\ \E ok \in BOOLEAN, podCount \in 0..MaxPods :
       IF ok
       THEN /\ trace' = trace \o <<<<"kubectl", "rollout status">>, <<"kubectl", "get pods">>,
                                   <<"docker", "rmi">>>>
            /\ res' = Some([EmptyResult EXCEPT !.podCount = Some(podCount),
                                               !.manifestsApplied = TRUE])
            /\ pc' = "dc_return" /\ err' = err
       ELSE /\ podCount = 0
            /\ trace' = trace \o <<<<"kubectl", "rollout status">>, <<"kubectl", "get pods">>>>
            /\ res' = res
            /\ Throw(Err("deploy", "get pods"), "cd_catch")
  /\ UNCHANGED <<options, config, kustomization, cli, bld, hk, svc, go, web, deployResult, wh, sqlx, npmrc>>

ContainerCatch ==
  /\ pc = "cd_catch"
  /\ Throw(Wrap(err, "Container deployment failed"), "cli_catch")
  /\ UNCHANGED <<options, config, kustomization, trace, cli, bld, hk, svc, go, web, res, deployResult, wh, sqlx, npmrc>>

\* ----------------------------------------------- DeploymentService.deployNpm
DeployNpm ==
  /\ pc = "dn_entry"
  /\ IF ~config.typeConfig
     THEN Throw(Err("config", "deployment.npm"), "cli_catch") /\ hk' = hk
     ELSE IF ~config.projectRoot
     THEN Throw(Err("config", "projectRoot"), "cli_catch") /\ hk' = hk
     ELSE /\ \E n \in 0..MaxHooks : ExecuteHooks("pre_deploy", n, "np_entry", "cli_catch")
          /\ err' = err
  /\ UNCHANGED <<options, config, kustomization, trace, cli, bld, svc, go, web, res, deployResult, wh, sqlx, npmrc>>

\* NpmDeploymentService.deploy: package.json is read before the dry-run check.
NpmDeploy ==
  /\ pc = "np_entry"
  /\ \E packageJson \in {"unreadable", "incomplete", "ok"}, npmConfigDryRun \in BOOLEAN :
       IF packageJson # "ok"
       THEN /\ ~npmConfigDryRun
            /\ Throw(Err("config", <<"package.json", packageJson>>), "cli_catch")
            /\ res' = res
       ELSE IF options.dryRun \/ npmConfigDryRun
       THEN /\ res' = Some(EmptyResult)
            /\ pc' = "dn_post" /\ err' = err
       ELSE /\ res' = res
            /\ pc' = "np_publish" /\ err' = err
  /\ UNCHANGED <<options, config, kustomization, trace, cli, bld, hk, svc, go, web, deployResult, wh, sqlx, npmrc>>

\* A variant that removes .npmrc after a successful publish only.
NpmPublishKeepsOnError ==
  /\ pc = "np_publish"
  /\ \E outcome \in {"noToken", "npmrcFail", "publishFail", "ok"},
        written \in BOOLEAN, unlinked \in BOOLEAN :
       /\ outcome = "noToken" => ~written
       /\ outcome \in {"publishFail", "ok"} => written
       /\ unlinked => written /\ outcome = "ok"
       /\ npmrc' = (written /\ ~unlinked)
       /\ trace' = trace \o
            CASE outcome = "noToken" -> <<>>
              [] outcome = "npmrcFail" -> <<<<"fs", "write .npmrc">>>>
              [] outcome = "publishFail" -> <<<<"fs", "write .npmrc">>, <<"npm", "publish">>>>
              [] OTHER -> <<<<"fs", "write .npmrc">>, <<"npm", "publish">>,
                            <<"fs", "unlink .npmrc">>>>
       /\ IF outcome = "ok"
          THEN /\ res' = Some([EmptyResult EXCEPT !.published = TRUE])
               /\ pc' = "dn_post" /\ err' = err
          ELSE /\ res' = res
               /\ Throw(Wrap(Err("publish", outcome), "NPM publish failed"), "cli_catch")
  /\ UNCHANGED <<options, config, kustomization, cli, bld, hk, svc, go, web, deployResult, wh, sqlx>>

\* The token check, .npmrc, `npm publish`, and the removal of .npmrc on both
\* paths.  A writeFile that fails may have created the file; an unlink that
\* fails, as it does when there is no file, is ignored on both paths.
NpmPublish ==
  /\ pc = "np_publish"
  /\ \E outcome \in {"noToken", "npmrcFail", "publishFail", "ok"},
        written \in BOOLEAN, unlinked \in BOOLEAN :
       /\ outcome = "noToken" => ~written
       /\ outcome \in {"publishFail", "ok"} => written
       /\ unlinked => written
       /\ npmrc' = (written /\ ~unlinked)
       /\ trace' = trace \o
            CASE outcome = "noToken" -> <<<<"fs", "unlink .npmrc">>>>
              [] outcome = "npmrcFail" -> <<<<"fs", "write .npmrc">>, <<"fs", "unlink .npmrc">>>>
              [] OTHER -> <<<<"fs", "write .npmrc">>, <<"npm", "publish">>,
                            <<"fs", "unlink .npmrc">>>>
       /\ IF outcome = "ok"
          THEN /\ res' = Some([EmptyResult EXCEPT !.published = TRUE])
               /\ pc' = "dn_post" /\ err' = err
          ELSE /\ res' = res
               /\ Throw(Wrap(Err("publish", outcome), "NPM publish failed"), "cli_catch")
  /\ UNCHANGED <<options, config, kustomization, cli, bld, hk, svc, go, web, deployResult, wh, sqlx>>

DeployNpmPostDeploy ==
  /\ pc = "dn_post"
  /\ \E n \in 0..MaxHooks : ExecuteHooks("post_deploy", n, "dn_return", "cli_catch")
  /\ UNCHANGED <<options, config, kustomization, trace, err, cli, bld, svc, go, web, res, deployResult, wh, sqlx, npmrc>>

DeployNpmReturn ==
  /\ pc = "dn_return"
  /\ deployResult' = res
  /\ pc' = "cli_success"
  /\ UNCHANGED <<options, config, kustomization, trace, err, cli, bld, hk, svc, go, web, res, wh, sqlx, npmrc>>

\* ----------------------------------------- DeploymentService.deployDockerHub
DeployDockerHub ==
  /\ pc = "dh_entry"
  /\ IF ~config.typeConfig
     THEN Throw(Err("config", "deployment.dockerhub"), "cli_catch") /\ hk' = hk
     ELSE IF ~config.projectRoot
     THEN Throw(Err("config", "projectRoot"), "cli_catch") /\ hk' = hk
     ELSE /\ \E n \in 0..MaxHooks : ExecuteHooks("pre_build", n, "dh_post_build", "cli_catch")
          /\ err' = err
  /\ UNCHANGED <<options, config, kustomization, trace, cli, bld, svc, go, web, res, deployResult, wh, sqlx, npmrc>>

DeployDockerHubPostBuild ==
  /\ pc = "dh_post_build"
  /\ \E n \in 0..MaxHooks : ExecuteHooks("post_build", n, "dh_pre_deploy", "cli_catch")
  /\ UNCHANGED <<options, config, kustomization, trace, err, cli, bld, svc, go, web, res, deployResult, wh, sqlx, npmrc>>

DeployDockerHubPreDeploy ==
  /\ pc = "dh_pre_deploy"
  /\ \E n \in 0..MaxHooks : ExecuteHooks("pre_deploy", n, "hub_entry", "cli_catch")
  /\ UNCHANGED <<options, config, kustomization, trace, err, cli, bld, svc, go, web, res, deployResult, wh, sqlx, npmrc>>

\* The revision argument of the strategy, `gitHash || 'latest'`.
hashOrLatest(deployHash) ==
  IF deployHash = None THEN "latest" ELSE CHOOSE h \in deployHash : TRUE

\* The tag the image is built under: the revision when the configured tag
\* is `latest`.
primaryTag(dockerhubConfig, gitHash) ==
  IF dockerhubConfig.tag = "latest" THEN gitHash ELSE dockerhubConfig.tag

\* `tags || []`, with `latest` appended when it is neither in the list nor
\* the configured tag.
additionalTags(dockerhubConfig) ==
  LET tags == IF dockerhubConfig.tags = None THEN <<>>
              ELSE CHOOSE t \in dockerhubConfig.tags : TRUE
  IN IF ~Occurs(tags, "latest") /\ dockerhubConfig.tag # "latest"
     THEN Append(tags, "latest")
     ELSE tags

\* The result of the strategy: the `-t` options of the build command are
\* its tag and its additionalTags.
DockerHubResult(pushed) ==
  [EmptyResult EXCEPT !.pushed = pushed,
                      !.tag = Some(primaryTag(config.dockerhub, hashOrLatest(cli.deployHash))),
                      !.additionalTags = additionalTags(config.dockerhub)]

\* DockerHubDeploymentService.deploy
DockerHubDeploy ==
  /\ pc = "hub_entry"
  /\ IF options.dryRun
     THEN /\ res' = Some(DockerHubResult(FALSE))
          /\ pc' = "dh_post"
     ELSE /\ res' = res
          /\ pc' = "hub_push"
  /\ UNCHANGED <<options, config, kustomization, trace, err, cli, bld, hk, svc, go, web, deployResult, wh, sqlx, npmrc>>

\* The credentials check, docker login, the buildx builder (created, or
\* selected when creating fails), `docker buildx build --push`, and the
\* removal of the builder, whose failure is ignored.
DockerHubPush ==
  /\ pc = "hub_push"
  /\ \E credentials \in BOOLEAN, created \in BOOLEAN :
       LET cmds == <<<<"docker", "login">>, <<"docker", "buildx create">>>>
                   \o (IF created THEN <<>> ELSE <<<<"docker", "buildx use">>>>)
                   \o <<<<"docker", "buildx inspect">>, <<"docker", "buildx build --push">>,
                        <<"docker", "buildx rm">>>>
           \* the position whose failure does not throw
           tolerant(i) == i = Len(cmds) \/ (i = 2 /\ ~created)
       IN IF ~credentials
          THEN /\ created
               /\ Throw(Wrap(Err("publish", "credentials required"), "Docker Hub push failed"),
                        "cli_catch")
               /\ UNCHANGED <<trace, res>>
          ELSE \E done \in 0..Len(cmds) :
                 /\ done # 1 /\ done # Len(cmds) - 1
                 /\ trace' = trace \o Ran(cmds, done)
                 /\ IF done = Len(cmds)
                    THEN /\ res' = Some(DockerHubResult(TRUE))
                         /\ pc' = "dh_post" /\ err' = err
                    ELSE /\ res' = res
                         /\ Throw(Wrap(Err("publish", cmds[done + 1][2]),
                                       "Docker Hub push failed"), "cli_catch")
  /\ UNCHANGED <<options, config, kustomization, cli, bld, hk, svc, go, web, deployResult, wh, sqlx, npmrc>>

DeployDockerHubPostDeploy ==
  /\ pc = "dh_post"
  /\ \E n \in 0..MaxHooks : ExecuteHooks("post_deploy", n, "dh_return", "cli_catch")
  /\ UNCHANGED <<options, config, kustomization, trace, err, cli, bld, svc, go, web, res, deployResult, wh, sqlx, npmrc>>

DeployDockerHubReturn ==
  /\ pc = "dh_return"
  /\ deployResult' = res
  /\ pc' = "cli_success"
  /\ UNCHANGED <<options, config, kustomization, trace, err, cli, bld, hk, svc, go, web, res, wh, sqlx, npmrc>>

\* An npm deployment from the entry of deployNpm to its return.
InitNpm ==
  /\ options \in [dryRun : BOOLEAN, skipBuild : {FALSE}, skipUpload : {FALSE}]
  /\ config \in {c \in Configs : c.type = "npm" /\ c.dispatcher = "full" /\ c.targetFound}
  /\ kustomization = NoKustomization
  /\ pc = "dn_entry"
  /\ InitLocals

NextNpm ==
  \/ DeployNpm \/ RunHook \/ HooksDone
  \/ NpmDeploy \/ NpmPublish
  \/ DeployNpmPostDeploy \/ DeployNpmReturn

SpecNpm == InitNpm /\ [][NextNpm]_vars

\* A dockerhub run from the resolution of the revision to the end of the
\* strategy, for every tag configuration of the target.
InitDockerHub ==
  /\ options \in [dryRun : BOOLEAN, skipBuild : {FALSE}, skipUpload : {FALSE}]
  /\ \E d \in DockerHubConfigs :
       config = [dispatcher |-> "full", type |-> "dockerhub", environment |-> "staging",
                 targetFound |-> TRUE, build |-> TRUE, useDocker |-> TRUE,
                 cleanupContainer |-> TRUE, typeConfig |-> TRUE, projectRoot |-> TRUE,
                 gitops |-> TRUE, notifications |-> DefaultNotifications, dockerhub |-> d]
  /\ kustomization = NoKustomization
  /\ pc = "cli_gitHash"
  /\ InitLocals

NextDockerHub ==
  \/ ResolveGitHash \/ BuildPhase \/ UploadPhase \/ DeployPhase \/ Dispatch
  \/ DeployDockerHub \/ DeployDockerHubPostBuild \/ DeployDockerHubPreDeploy
  \/ RunHook \/ HooksDone
  \/ DockerHubDeploy \/ DockerHubPush

SpecDockerHub == InitDockerHub /\ [][NextDockerHub]_vars

\* -------------------------------------- DeploymentService.deployToKubernetes
DeployToKubernetes ==
  /\ pc = "k8_entry"
  /\ IF options.dryRun
     THEN /\ deployResult' = Some([EmptyResult EXCEPT !.skipped = TRUE])
          /\ pc' = "cli_success"
          /\ UNCHANGED <<trace, err>>
     ELSE \E outcome \in {"noKubectl", "getFail", "noPods", "deleteFail", "statusFail", "ok"},
             podCount \in 0..MaxPods :
            LET get == <<"kubectl", "get pods">>
                delete == <<"kubectl", "delete pods">>
            IN /\ (outcome = "ok" /\ podCount > 0) \/ (outcome # "ok" /\ podCount = 0)
               /\ trace' = trace \o
                    CASE outcome \in {"noKubectl", "getFail", "noPods"} -> <<get>>
                      [] outcome = "deleteFail" -> <<get, delete>>
                      [] OTHER -> <<get, delete, get>>
               /\ IF outcome \in {"getFail", "deleteFail", "statusFail"}
                  THEN /\ Throw(Wrap(Err("deploy", outcome), "Kubernetes deployment failed"),
                                "cli_catch")
                       /\ deployResult' = deployResult
                  ELSE /\ deployResult' =
                            Some(IF outcome = "noKubectl"
                                 THEN [EmptyResult EXCEPT !.skipped = TRUE]
                                 ELSE [EmptyResult EXCEPT !.podCount = Some(podCount)])
                       /\ pc' = "cli_success" /\ err' = err
  /\ UNCHANGED <<options, config, kustomization, cli, bld, hk, svc, go, web, res, wh, sqlx, npmrc>>

\* ----------- GitOpsContainerDeploymentService.deploy: update kustomization.yaml
\* yaml.load: the keys of the document; its comments are not part of the value.
Load(file) == [resources |-> file.resources, images |-> file.images]

\* A variant of Dump that writes the `images` key alone.
DumpImagesOnly(k) == [comments |-> FALSE, resources |-> <<>>, images |-> k.images]

\* yaml.dump: the keys in insertion order, without comments.
Dump(k) == [comments |-> FALSE, resources |-> k.resources, images |-> k.images]

\* `${registry.endpoint}/${registry.repository}`
FullName(registry) == <<registry.endpoint, registry.repository>>

\* `img.name === `${registry.endpoint}/${registry.repository}` ||
\*  img.name === registry.repository`
Matches(img, registry) ==
  img.name = FullName(registry) \/ img.name = <<registry.repository>>

\* A variant of UpdateImages that never looks for an existing entry.
AppendImage(k, registry, imageTag) ==
  LET images == IF k.images = None THEN <<>> ELSE CHOOSE l \in k.images : TRUE
  IN [k EXCEPT !.images = Some(Append(images, [name |-> FullName(registry),
                                                newTag |-> imageTag]))]

\* `images` defaults to [], the first matching entry gets the new tag, and
\* an entry is appended when none matches.
UpdateImages(k, registry, imageTag) ==
  LET images == IF k.images = None THEN <<>> ELSE CHOOSE l \in k.images : TRUE
      found == {i \in DOMAIN images : Matches(images[i], registry)}
  IN IF found # {}
     THEN LET i == CHOOSE j \in found : \A m \in found : j <= m
          IN [k EXCEPT !.images = Some([images EXCEPT ![i].newTag = imageTag])]
     ELSE [k EXCEPT !.images = Some(Append(images, [name |-> FullName(registry),
                                                    newTag |-> imageTag]))]

\* readFileSync, yaml.load, the update, yaml.dump, writeFileSync.
UpdateFile(file, registry, imageTag) == Dump(UpdateImages(Load(file), registry, imageTag))

\* A variant of NewKustomization that lists no image.
NewKustomizationNoImages(registry, imageTag) ==
  [resources |-> <<"email-service.yaml", "email-configmap.yaml", "email-hpa.yaml",
                   "email-network-policy.yaml">>,
   images |-> None]

\* The descriptor written when no kustomization.yaml was found.
NewKustomization(registry, imageTag) ==
  [resources |-> <<"email-service.yaml", "email-configmap.yaml", "email-hpa.yaml",
                   "email-network-policy.yaml">>,
   images |-> Some(<<[name |-> FullName(registry), newTag |-> imageTag]>>)]

\* One deployment finds no kustomization.yaml and writes one.  The directory
\* it writes to is computed apart from the paths it looked at, so a later
\* deployment may find the new file or not.
CreateKustomization ==
  /\ pc = "go_kustomize"
  /\ ~kustomization.found
  /\ kustomization.updates < MaxUpdates
  /\ LET written == Dump(NewKustomization(kustomization.registry, kustomization.imageTag))
     IN \E found \in BOOLEAN :
          kustomization' = [kustomization EXCEPT
                              !.file = written,
                              !.updates = @ + 1,
                              !.first = IF kustomization.updates = 0 THEN Some(written) ELSE @,
                              !.found = found,
                              !.before = None,
                              !.last = "created"]
  /\ UNCHANGED <<options, config, pc, trace, err, cli, bld, hk, svc, go, web, res, deployResult, wh, sqlx, npmrc>>

\* One deployment's update of an existing kustomization.yaml.
UpdateKustomization ==
  /\ pc = "go_kustomize"
  /\ kustomization.found
  /\ kustomization.updates < MaxUpdates
  /\ LET written == UpdateFile(kustomization.file, kustomization.registry,
                               kustomization.imageTag)
     IN kustomization' = [kustomization EXCEPT
                            !.file = written,
                            !.updates = @ + 1,
                            !.first = IF kustomization.updates = 0 THEN Some(written) ELSE @,
                            !.before = Some(kustomization.file),
                            !.last = "updated"]
  /\ UNCHANGED <<options, config, pc, trace, err, cli, bld, hk, svc, go, web, res, deployResult, wh, sqlx, npmrc>>

\* A later deployment of the same service records another tag.
NextImageTag ==
  /\ pc = "go_kustomize"
  /\ kustomization.updates = MaxUpdates
  /\ \E t \in Tags \ {kustomization.imageTag} :
       kustomization' = [kustomization EXCEPT !.imageTag = t, !.updates = 0,
                                              !.first = None, !.original = kustomization.file,
                                              !.before = None, !.last = "none"]
  /\ UNCHANGED <<options, config, pc, trace, err, cli, bld, hk, svc, go, web, res, deployResult, wh, sqlx, npmrc>>

\* Every kustomization.yaml within the bounds, or none, met by a non-dry-run
\* GitOps deployment that has pushed its image.
InitPatch ==
  /\ options = [dryRun |-> FALSE, skipBuild |-> FALSE, skipUpload |-> FALSE]
  /\ config \in {c \in Configs : c.type = "container" /\ c.gitops /\ c.typeConfig
                                 /\ c.dispatcher = "full" /\ c.targetFound}
  /\ \E file \in KustomizationFiles, registry \in Registries, imageTag \in Tags,
        found \in BOOLEAN :
       /\ (~found => file = NoKustomization.file)
       /\ kustomization = [file |-> file, original |-> file, registry |-> registry,
                           imageTag |-> imageTag, updates |-> 0, first |-> None,
                           found |-> found, before |-> None, last |-> "none"]
  /\ pc = "go_kustomize"
  /\ InitLocals

NextPatch == CreateKustomization \/ UpdateKustomization \/ NextImageTag

SpecPatch == InitPatch /\ [][NextPatch]_vars

\* ------------------------------------------------- notify and sendNotification
\* The statement of the deploy action that follows each `await notify(...)`.
NextStep(event) ==
  CASE event = "dryRun" -> "cli_deployStart"
    [] event = "deployStart" -> "cli_gitHash"
    [] event = "buildStart" -> "build"
    [] event \in {"buildSuccess", "buildSkipped"} -> "cli_upload"
    [] event = "uploadStart" -> "upload"
    [] event \in {"uploadSuccess", "uploadSkipped"} -> "cli_deploy"
    [] event \in {"podsRestarting", "webDeploying"} -> "dispatch"
    [] event \in {"podsReady", "webDeployed"} -> "cli_deploySuccess"
    [] event = "deploySuccess" -> "cli_cleanup"
    [] event \in {"cleanup", "deployError"} -> "exit"

\* One `await notify(event, ...)` of the deploy action.
CallNotify ==
  /\ pc = "cli_notify"
  /\ \E event \in Events :
       /\ (event = "dryRun" => options.dryRun)
       /\ wh' = [event |-> event, ret |-> NextStep(event), retryAfter |-> None]
  /\ pc' = "notify"
  /\ UNCHANGED <<options, config, kustomization, trace, err, cli, bld, hk, svc, go, web, res, deployResult, sqlx, npmrc>>

\* A variant of the helper that looks at `enabled` only.
NotifyIgnoresEvents ==
  /\ pc = "notify"
  /\ pc' = IF config.notifications.enabled THEN "wh_send" ELSE wh.ret
  /\ UNCHANGED <<options, config, kustomization, trace, err, cli, bld, hk, svc, go, web, res, deployResult, wh, sqlx, npmrc>>

\* The notify helper: sendNotification is called unless notifications or the
\* event are switched off.
Notify ==
  /\ pc = "notify"
  /\ pc' = IF config.notifications.enabled /\ wh.event \notin config.notifications.disabled
           THEN "wh_send"
           ELSE wh.ret
  /\ UNCHANGED <<options, config, kustomization, trace, err, cli, bld, hk, svc, go, web, res, deployResult, wh, sqlx, npmrc>>

\* A variant of sendNotification without the try block: an exception of
\* fetch reaches the deploy action.
SendNotificationThrows ==
  /\ pc = "wh_send"
  /\ IF ~config.notifications.webhook
     THEN pc' = wh.ret /\ UNCHANGED <<trace, err, wh>>
     ELSE \E response \in {"throws", "ok", "not ok", "429"},
             retryAfter \in {None} \cup {Some(h) : h \in RetryAfterValues} :
            /\ (response # "429" => retryAfter = None)
            /\ wh' = [wh EXCEPT !.retryAfter = retryAfter]
            /\ trace' = Append(trace, <<"fetch", "POST">>)
                         \o (IF response = "not ok"
                             THEN <<(<<"warn", "Webhook notification failed">>)>>
                             ELSE <<>>)
            /\ IF response = "throws"
               THEN Throw(Err("notify", "fetch"), "cli_catch")
               ELSE /\ pc' = IF response = "429" THEN "wh_wait" ELSE wh.ret
                    /\ err' = err
  /\ UNCHANGED <<options, config, kustomization, cli, bld, hk, svc, go, web, res, deployResult, sqlx, npmrc>>

\* WebhookService.sendNotification up to the response: nothing without a
\* webhook URL, else one POST; an exception and a status that is not OK are
\* logged as warnings.
SendNotification ==
  /\ pc = "wh_send"
  /\ IF ~config.notifications.webhook
     THEN pc' = wh.ret /\ UNCHANGED <<trace, wh>>
     ELSE \E response \in {"throws", "ok", "not ok", "429"},
             retryAfter \in {None} \cup {Some(h) : h \in RetryAfterValues} :
            /\ (response # "429" => retryAfter = None)
            /\ wh' = [wh EXCEPT !.retryAfter = retryAfter]
            /\ trace' = Append(trace, <<"fetch", "POST">>)
                         \o (CASE response = "throws"
                                  -> <<(<<"warn", "Failed to send webhook notification">>)>>
                               [] response = "not ok"
                                  -> <<(<<"warn", "Webhook notification failed">>)>>
                               [] OTHER -> <<>>)
            /\ pc' = IF response = "429" THEN "wh_wait" ELSE wh.ret
  /\ UNCHANGED <<options, config, kustomization, err, cli, bld, hk, svc, go, web, res, deployResult, sqlx, npmrc>>

\* `retryAfter ? parseInt(retryAfter) * 1000 : rateLimitDelay`, None for NaN.
Delay(retryAfter, rateLimitDelay) ==
  IF retryAfter = None THEN Some(rateLimitDelay)
  ELSE LET h == CHOOSE x \in retryAfter : TRUE
       IN {n * 1000 : n \in ParseInt(h)}

\* The 429 branch: the wait, then the return without a second POST.
RateLimitWait ==
  /\ pc = "wh_wait"
  /\ trace' = Append(trace, <<"setTimeout",
                               Delay(wh.retryAfter, config.notifications.rateLimitDelay)>>)
  /\ pc' = wh.ret
  /\ UNCHANGED <<options, config, kustomization, err, cli, bld, hk, svc, go, web, res, deployResult, wh, sqlx, npmrc>>

\* A run whose target was resolved, at a notify call, for every notification
\* setting of the target.
InitNotify ==
  /\ options \in [dryRun : BOOLEAN, skipBuild : {FALSE}, skipUpload : {FALSE}]
  /\ \E n \in Notifications :
       config = [dispatcher |-> "full", type |-> "lambda-zip", environment |-> "staging",
                 targetFound |-> TRUE, build |-> TRUE, useDocker |-> TRUE,
                 cleanupContainer |-> TRUE, typeConfig |-> TRUE, projectRoot |-> TRUE,
                 gitops |-> TRUE, notifications |-> n, dockerhub |-> DefaultDockerHub]
  /\ kustomization = NoKustomization
  /\ pc = "cli_notify"
  /\ InitLocals

NextNotify == CallNotify \/ Notify \/ SendNotification \/ RateLimitWait

SpecNotify == InitNotify /\ [][NextNotify]_vars

\* ------------------------------------- BuildService.build: SQLx preparation
\* build with sqlx.enabled, outside a dry run: the first prepareSqlx call.
BuildSqlx ==
  /\ pc = "build_sqlx"
  /\ sqlx' = [call |-> 1, i |-> 0]
  /\ pc' = "sqlx_prepare"
  /\ UNCHANGED <<options, config, kustomization, trace, err, cli, bld, hk, svc, go, web, res, deployResult, wh, npmrc>>

\* prepareSqlx: cleanupContainer, then startPostgres.
PrepareSqlx ==
  /\ pc = "sqlx_prepare"
  /\ trace' = trace \o <<(<<"docker", "rm -f postgres">>), (<<"docker", "run postgres">>)>>
  /\ \E started \in BOOLEAN :
       IF started
       THEN /\ sqlx' = [sqlx EXCEPT !.i = 1]
            /\ pc' = "sqlx_wait" /\ err' = err
       ELSE /\ sqlx' = sqlx
            /\ Throw(Err("sqlx", "Failed to start PostgreSQL"), "sqlx_finally")
  /\ UNCHANGED <<options, config, kustomization, cli, bld, hk, svc, go, web, res, deployResult, wh, npmrc>>

\* One iteration of waitForPostgres's loop, `for (let i = 1; i <= maxAttempts;
\* i++)`: pg_isready, and on its failure the timeout error at the last
\* attempt, a sleep before the next one otherwise.  The loop variable is gone
\* when the function returns or throws.
WaitForPostgres ==
  /\ pc = "sqlx_wait"
  /\ sqlx.i <= maxAttempts
  /\ \E ready \in BOOLEAN :
       IF ready
       THEN /\ sqlx' = [sqlx EXCEPT !.i = 0]
            /\ pc' = "sqlx_generate" /\ err' = err
       ELSE IF sqlx.i = maxAttempts
       THEN /\ sqlx' = [sqlx EXCEPT !.i = 0]
            /\ Throw(Err("sqlx", "PostgreSQL failed to start within timeout"), "sqlx_finally")
       ELSE /\ sqlx' = [sqlx EXCEPT !.i = @ + 1]
            /\ pc' = pc /\ err' = err
  /\ UNCHANGED <<options, config, kustomization, trace, cli, bld, hk, svc, go, web, res, deployResult, wh, npmrc>>

\* runMigrations, generateSqlxMetadata and verifySqlxFiles.
SqlxGenerate ==
  /\ pc = "sqlx_generate"
  /\ \E outcome \in {"ok", "migrationFail", "prepareFail"} :
       /\ trace' = trace \o (IF outcome = "migrationFail"
                             THEN <<(<<"docker", "exec psql">>)>>
                             ELSE <<(<<"docker", "exec psql">>), (<<"cargo", "sqlx prepare">>)>>)
       /\ IF outcome = "ok"
          THEN pc' = "sqlx_finally" /\ err' = err
          ELSE Throw(Err("sqlx", outcome), "sqlx_finally")
  /\ UNCHANGED <<options, config, kustomization, cli, bld, hk, svc, go, web, res, deployResult, wh, sqlx, npmrc>>

\* finally: cleanupContainer; then prepareSqlx returns or rethrows, to the
\* catch clause of build from the first call and out of build from the retry.
SqlxFinally ==
  /\ pc = "sqlx_finally"
  /\ trace' = Append(trace, <<"docker", "rm -f postgres">>)
  /\ pc' = IF err = NoErr THEN "build_root"
           ELSE IF sqlx.call = 1 THEN "build_sqlx_catch" ELSE "cli_catch"
  /\ UNCHANGED <<options, config, kustomization, err, cli, bld, hk, svc, go, web, res, deployResult, wh, sqlx, npmrc>>

\* catch of build: the failure is logged and, with prepare.autoGenerate,
\* prepareSqlx is called once more after fixCompilationIssues.
BuildSqlxCatch ==
  /\ pc = "build_sqlx_catch"
  /\ \E autoGenerate \in BOOLEAN, fixed \in BOOLEAN :
       IF ~autoGenerate
       THEN /\ fixed /\ sqlx' = NoSqlx
            /\ err' = NoErr /\ pc' = "build_root"
       ELSE IF fixed
       THEN /\ sqlx' = [call |-> 2, i |-> 0]
            /\ err' = NoErr /\ pc' = "sqlx_prepare"
       ELSE /\ sqlx' = NoSqlx
            /\ Throw(Err("sqlx", "fixCompilationIssues"), "cli_catch")
  /\ UNCHANGED <<options, config, kustomization, trace, cli, bld, hk, svc, go, web, res, deployResult, wh, npmrc>>

\* The two polling loops: a build that has reached its SQLx preparation, and a
\* service deployment that has reached its health check.  Every command of a
\* loop returns, so a loop that can take a step takes it.
InitPolling ==
  /\ options = [dryRun |-> FALSE, skipBuild |-> FALSE, skipUpload |-> FALSE]
  /\ config \in {c \in Configs : /\ c.targetFound /\ c.typeConfig /\ c.build
                                  /\ c.type = "service" /\ c.dispatcher = "web-service"}
  /\ kustomization = NoKustomization
  /\ pc \in {"build_sqlx", "sd_health"}
  /\ InitLocals

NextPolling ==
  \/ BuildSqlx \/ PrepareSqlx \/ WaitForPostgres \/ SqlxGenerate \/ SqlxFinally
  \/ BuildSqlxCatch
  \/ VerifyHealthAttempt \/ VerifyHealthExhausted

SpecPolling == InitPolling /\ [][NextPolling]_vars /\ WF_vars(NextPolling)

\* ------------------------------------------------------ a run with signals
\* The runs that can register a cleanup handler: a target of a type the build
\* phase is not skipped for, deployed by the class that knows it.
InitInterrupt ==
  /\ options \in [dryRun : BOOLEAN, skipBuild : BOOLEAN, skipUpload : BOOLEAN]
  /\ config \in {c \in Configs : <<c.type, c.dispatcher>> \in {<<"lambda-zip", "full">>,
                                                               <<"service", "web-service">>}}
  /\ kustomization = NoKustomization
  /\ pc = "cli_load"
  /\ InitLocals

NextInterrupt ==
  \/ LoadConfig \/ NotifyDryRun \/ NotifyDeployStart \/ ResolveGitHash
  \/ BuildPhase \/ Build \/ BuildWithDocker \/ BuildSuccess
  \/ UploadPhase \/ Upload \/ UploadSuccess
  \/ DeployPhase \/ Dispatch
  \/ SuccessDetails \/ NotifyDeploySuccess \/ CleanupAfterSuccess
  \/ CliCatch \/ ExitHandlers
  \/ Interrupt
  \/ RunHook \/ HooksDone
  \/ DeployService \/ DeployServicePostBuild \/ DeployServiceReturn
  \/ ServiceDeploy \/ ServiceBuild \/ ServiceTag \/ ServiceLogin \/ ServicePush
  \/ ServiceMigrate \/ ServiceRolloutRestart \/ ServiceRolloutStatus
  \/ VerifyHealthAttempt \/ VerifyHealthExhausted \/ ServicePodCount
  \/ ServiceRollback
  \/ DeployToKubernetes

SpecInterrupt == InitInterrupt /\ [][NextInterrupt]_vars

Next ==
  \/ LoadConfig \/ NotifyDryRun \/ NotifyDeployStart \/ ResolveGitHash
  \/ BuildPhase \/ Build \/ BuildWithDocker \/ BuildSuccess
  \/ UploadPhase \/ Upload \/ UploadSuccess
  \/ DeployPhase \/ Dispatch
  \/ SuccessDetails \/ NotifyDeploySuccess \/ CleanupAfterSuccess
  \/ CliCatch \/ ExitHandlers
  \/ RunHook \/ HooksDone
  \/ DeployService \/ DeployServicePostBuild \/ DeployServiceReturn
  \/ ServiceDeploy \/ ServiceBuild \/ ServiceTag \/ ServiceLogin \/ ServicePush
  \/ ServiceMigrate \/ ServiceRolloutRestart \/ ServiceRolloutStatus
  \/ VerifyHealthAttempt \/ VerifyHealthExhausted \/ ServicePodCount
  \/ ServiceRollback
  \/ DeployWeb \/ WebBuildCommand \/ WebScan \/ WebPutObject \/ WebInvalidate
  \/ WebVerification \/ WebVerify \/ DeployWebPostDeploy \/ DeployWebReturn
  \/ DeployContainer \/ DeployContainerReturn
  \/ GitOpsDeploy \/ GitOpsBuild \/ GitOpsTag \/ GitOpsNodePort \/ GitOpsPush
  \/ GitOpsKustomization
  \/ GitOpsCommit \/ GitOpsCleanup \/ GitOpsCatch
  \/ ContainerDeploy \/ ContainerBuildPush \/ ContainerApply \/ ContainerStatus
  \/ ContainerCatch
  \/ DeployNpm \/ NpmDeploy \/ NpmPublish \/ DeployNpmPostDeploy \/ DeployNpmReturn
  \/ DeployDockerHub \/ DeployDockerHubPostBuild \/ DeployDockerHubPreDeploy
  \/ DockerHubDeploy \/ DockerHubPush \/ DeployDockerHubPostDeploy \/ DeployDockerHubReturn
  \/ DeployToKubernetes

Spec == Init /\ [][Next]_vars

\* -------------------------------------------------------------- properties
TargetResolved == cli.loaded /\ config.targetFound
Notified(event) == Count(trace, <<"notify", event>>)
Ended == pc \in {"exit", "exited"}

\* C1: a run whose deployment target was resolved emits exactly one of
\* deploySuccess and deployError, never both: deploySuccess goes with exit
\* status 0, deployError with a non-zero one, whatever failed; and a run that
\* has not ended can always take a step.
C1_OneTerminalNotification ==
  /\ Notified("deploySuccess") + Notified("deployError") <= 1
  /\ (Ended /\ TargetResolved =>
        /\ Notified("deploySuccess") + Notified("deployError") = 1
        /\ (Notified("deploySuccess") = 1 <=> cli.exitCode = Some(0))
        /\ (Notified("deployError") = 1 <=> cli.exitCode = Some(1)))
  /\ (pc # "exited" => ENABLED Next)

\* A run that failed in its strategy, sent deployError alone and exited 1.
C1_Witness ==
  /\ pc = "exited" /\ TargetResolved
  /\ err.kind = "deploy"
  /\ Notified("deployError") = 1 /\ Notified("deploySuccess") = 0
  /\ cli.exitCode = Some(1)

\* The steps of ServiceDeploymentService.deploy from the push onward, by the
\* name their failure is recorded under in svc.failedAt.
PushOnward ==
  {"login", "push", "applyFail", "waitFail", "getFail", "logsFail", "deleteFail",
   "migration", "rollout restart", "rollout status", "health"}

Rollbacks == Count(trace, <<"kubectl", "rollout undo">>)

\* C2: when a step of the service strategy from the push onward fails, the
\* rollback is issued exactly once and the error the deploy action catches
\* is the error of that step, also when the rollback command failed.
C2_RollbackOnceOriginalError ==
  /\ Rollbacks <= 1
  /\ (svc.failedAt \in PushOnward /\ pc \in {"cli_catch", "exit", "exited"} =>
        /\ Rollbacks = 1
        /\ svc.rollback # None
        /\ err = svc.origErr
        /\ deployResult = None)

\* The health check ran out of attempts, the rollback failed too, and the
\* run ended with the health-check error.
C2_Witness ==
  /\ pc = "exited"
  /\ svc.failedAt = "health"
  /\ svc.rollback = Some(FALSE)
  /\ err = Err("deploy", "Health check verification failed")

\* C3: a rollback is issued only when a step from the push onward failed;
\* not when the build or a tag failed, not in a dry run, not on success.
C3_RollbackOnlyFromPushOnward ==
  Rollbacks > 0 => svc.failedAt \in PushOnward

\* The state of the service strategy a command belongs to: 1 Building,
\* 2 Pushing, 3 Migrating, 4 RolloutRestarting; 0 for every other event.
ServiceState(e) ==
  CASE e \in {<<"docker", "build">>, <<"docker", "tag">>} -> 1
    [] e \in {<<"docker", "login">>, <<"docker", "push">>} -> 2
    [] e \in {<<"kubectl", "apply job">>, <<"kubectl", "wait job">>, <<"kubectl", "get job">>,
              <<"kubectl", "logs job">>, <<"kubectl", "delete job">>} -> 3
    [] e \in {<<"kubectl", "rollout restart">>, <<"kubectl", "rollout status">>} -> 4
    [] OTHER -> 0

ServiceRun ==
  /\ Strategy(config.dispatcher, config.type, config.environment) = "ds_entry"
  /\ ~options.dryRun

Entered(state) == \E i \in DOMAIN trace : ServiceState(trace[i]) = state
HealthChecking ==
  pc = "sd_health" \/ svc.healthResult # None

\* C4: a non-dry-run service deployment goes Building, Pushing, Migrating,
\* RolloutRestarting, HealthChecking in this order and never back; a state is
\* entered only when every earlier step succeeded (the restart only after a
\* completed migration, the health check only after the rollout wait); and
\* the strategy ends with a result whose three flags are true, or with an
\* error after the rollback attempt.
C4_ServiceStateOrder ==
  ServiceRun =>
    /\ \A i, j \in DOMAIN trace :
         i < j /\ ServiceState(trace[i]) > 0 /\ ServiceState(trace[j]) > 0
           => ServiceState(trace[i]) <= ServiceState(trace[j])
    /\ Count(trace, <<"docker", "build">>) <= 1
    /\ Count(trace, <<"kubectl", "apply job">>) <= 1
    /\ Count(trace, <<"kubectl", "rollout restart">>) <= 1
    /\ Count(trace, <<"kubectl", "rollout status">>) <= 1
    /\ (Entered(2) => /\ Count(trace, <<"docker", "tag">>) = 2
                      /\ svc.failedAt \notin {"build", "tag"})
    /\ (Entered(3) => /\ Count(trace, <<"docker", "push">>) = 2
                      /\ svc.failedAt \notin {"build", "tag", "login", "push"})
    /\ (Entered(4) => svc.migrationResult = Some(TRUE))
    /\ (HealthChecking => /\ Count(trace, <<"kubectl", "rollout status">>) = 1
                          /\ svc.failedAt \in {"none", "health"})
    /\ (Entered(1) /\ HealthChecking => Entered(2) /\ Entered(3) /\ Entered(4))
    /\ (Rollbacks > 0 => \A i \in DOMAIN trace :
          ServiceState(trace[i]) > 0 => i < First(trace, <<"kubectl", "rollout undo">>))
    /\ \A r \in svc.result :
         /\ r.migrationCompleted /\ r.deploymentRestarted /\ r.healthCheckPassed
         /\ svc.healthResult = Some(TRUE) /\ Rollbacks = 0
    /\ (Entered(1) /\ pc \in {"cli_catch", "exit", "exited"} /\ svc.result = None
          => Rollbacks = 1 /\ err.kind = "deploy")

\* A run that went through all five states and returned the healthy result.
C4_Witness ==
  /\ ServiceRun /\ pc = "exited"
  /\ Entered(1) /\ Entered(2) /\ Entered(3) /\ Entered(4)
  /\ svc.healthResult = Some(TRUE)
  /\ \E r \in deployResult : r.healthCheckPassed

\* The hooks of a phase that were executed, in the order of their execution.
HookRuns(phase) == SelectSeq(trace, LAMBDA e : e[1] = "hook" /\ e[2] = phase)

\* C5: executeHooks runs the hooks of its list in list order, the k-th
\* execution being that of the k-th hook; when a hook fails it is the last
\* hook of the list to have run and the error names it.
C5_HooksInListOrder ==
  \A p \in Phases :
    LET runs == HookRuns(p)
    IN /\ Len(runs) <= MaxHooks
       /\ \A k \in DOMAIN runs : runs[k][3] = HookList(Len(runs))[k]
       /\ (pc = "hooks" /\ hk.phase = p =>
             runs = [k \in 1..(hk.idx - 1) |-> <<"hook", p, hk.list[k]>>])
       /\ (err.kind = "hook" /\ err.at[1] = p =>
             /\ hk.phase = p
             /\ hk.list[hk.idx] = err.at[2]
             /\ runs = [k \in 1..hk.idx |-> <<"hook", p, hk.list[k]>>])

\* Of three pre_deploy hooks the second failed: the first two ran, the third
\* did not, and the error names the second.
C5_Witness ==
  /\ pc = "exited"
  /\ Len(hk.list) = 3 /\ hk.phase = "pre_deploy"
  /\ err.kind = "hook" /\ err.at = <<"pre_deploy", 2>>
  /\ HookRuns("pre_deploy") = <<<<"hook", "pre_deploy", 1>>, <<"hook", "pre_deploy", 2>>>>

\* The position in trace of the last hook execution.
LastHook ==
  CHOOSE i \in DOMAIN trace :
    trace[i][1] = "hook" /\ \A j \in DOMAIN trace : j > i => trace[j][1] # "hook"

\* What a strategy's deployment step does to the outside.
DeploySideEffects ==
  {<<"s3", "putObject">>, <<"cdn", "createInvalidation">>, <<"npm", "publish">>,
   <<"docker", "push">>, <<"docker", "buildx build --push">>,
   <<"fs", "write kustomization">>, <<"git", "push">>,
   <<"kubectl", "apply -k">>, <<"kubectl", "apply -f">>, <<"kubectl", "set image">>,
   <<"kubectl", "rollout restart">>}

\* The image builds of the strategies.
ImageBuilds == {<<"docker", "build">>, <<"docker", "buildx build --push">>}

\* C6: after a hook has failed nothing more of the pipeline runs, only the
\* deployError notification and the exit cleanup follow; a run whose
\* pre_deploy hook failed has performed no deployment side effect, a run
\* whose pre_build hook failed has started no image build of its strategy,
\* and the run ends with deployError alone and exit status 1.
C6_HookFailureStopsPipeline ==
  err.kind = "hook" =>
    /\ LET last == LastHook
       IN /\ trace[last] = <<"hook", err.at[1], err.at[2]>>
          /\ \A j \in (last + 1)..Len(trace) :
               trace[j] \in {<<"notify", "deployError">>, <<"docker", "rmi build image">>}
    /\ (err.at[1] = "pre_deploy" => \A j \in DOMAIN trace : trace[j] \notin DeploySideEffects)
    /\ (err.at[1] = "pre_build" => \A j \in DOMAIN trace : trace[j] \notin ImageBuilds)
    /\ (pc = "exited" => /\ Notified("deployError") = 1 /\ Notified("deploySuccess") = 0
                         /\ cli.exitCode = Some(1))

\* A web deployment whose pre_deploy hook failed: nothing was uploaded and
\* the run ended with deployError.
C6_Witness ==
  /\ pc = "exited" /\ config.type = "web" /\ ~options.dryRun
  /\ err.kind = "hook" /\ err.at[1] = "pre_deploy"
  /\ Notified("deployError") = 1
  /\ ~Occurs(trace, <<"s3", "putObject">>)

\* The collaborator calls that change something outside the process.
SideEffecting(e) ==
  \/ e[1] \in {"docker", "kubectl", "s3", "cdn", "npm"}
  \/ e \in {<<"fs", "write kustomization">>, <<"git", "commit">>, <<"git", "push">>}

C8_DryRunResultReportsNothing ==
  options.dryRun =>
    \A r \in deployResult :
      /\ ~r.published /\ ~r.pushed /\ ~r.manifestsApplied
      /\ ~r.migrationCompleted /\ ~r.deploymentRestarted /\ ~r.healthCheckPassed
      /\ \A n \in r.podCount : n = 0
      /\ \/ \A n \in r.deployedFiles : n = 0
         \/ Notified("webDeployed") = 0

\* C9: a dry run fails with a configuration error or not at all.
C9_DryRunOnlyConfigurationErrors ==
  options.dryRun => err.kind \in {"none", "config"}

\* C10: updating a kustomization.yaml twice with the same image name and tag
\* leaves the file the first update wrote: same entries in the same order,
\* same other keys.
C10_UpdateIdempotent ==
  LET once == UpdateFile(kustomization.file, kustomization.registry, kustomization.imageTag)
  IN /\ UpdateFile(once, kustomization.registry, kustomization.imageTag) = once
     /\ (kustomization.updates >= 1 => kustomization.first = Some(kustomization.file))

\* A commented file whose entries did not name the image was updated twice:
\* one entry was appended, once.
C10_Witness ==
  /\ kustomization.updates = 2
  /\ kustomization.original.comments
  /\ \E before \in kustomization.original.images, after \in kustomization.file.images :
       /\ Len(before) > 0
       /\ \A i \in DOMAIN before : ~Matches(before[i], kustomization.registry)
       /\ after = Append(before, [name |-> FullName(kustomization.registry),
                                  newTag |-> kustomization.imageTag])

\* The `images` list of a kustomization.yaml, empty when the key is absent.
ImagesOf(file) == IF file.images = None THEN <<>> ELSE CHOOSE l \in file.images : TRUE

\* C11: the update of an existing kustomization.yaml changes the image list
\* alone: when an entry matches the image name, the first such entry gets the
\* new tag, the list keeps its length and every other entry is as before;
\* when none matches, one entry (image name, new tag) is appended to the
\* entries of before; the other keys of the file are as before; and the file
\* then holds an entry for the image name with the new tag.
C11_PatchChangesOnlyImageTag ==
  kustomization.last = "updated" =>
    \E before \in kustomization.before :
      LET old == ImagesOf(before)
          new == ImagesOf(kustomization.file)
          matching == {i \in DOMAIN old : Matches(old[i], kustomization.registry)}
      IN /\ kustomization.file.resources = before.resources
         /\ kustomization.file.images # None
         /\ IF matching # {}
            THEN /\ Len(new) = Len(old)
                 /\ \E i \in matching :
                      /\ new[i] = [old[i] EXCEPT !.newTag = kustomization.imageTag]
                      /\ \A j \in DOMAIN old \ {i} : new[j] = old[j]
            ELSE new = Append(old, [name |-> FullName(kustomization.registry),
                                    newTag |-> kustomization.imageTag])
         /\ \E i \in DOMAIN new : /\ Matches(new[i], kustomization.registry)
                                  /\ new[i].newTag = kustomization.imageTag

\* A file listing a resource and two images, the second being the deployed
\* image under another tag, was updated: the second entry has the new tag.
C11_Witness ==
  /\ kustomization.last = "updated"
  /\ \E before \in kustomization.before :
       /\ before.resources = <<"deployment.yaml">>
       /\ Len(ImagesOf(before)) = 2
       /\ ~Matches(ImagesOf(before)[1], kustomization.registry)
       /\ ImagesOf(before)[2].name = FullName(kustomization.registry)
       /\ ImagesOf(before)[2].newTag # kustomization.imageTag
  /\ ImagesOf(kustomization.file)[2].newTag = kustomization.imageTag

\* C12: the kustomization.yaml a deployment writes when it found none lists
\* exactly one image, named `<endpoint>/<repository>` of the registry the
\* image was pushed for, with the image tag of this deployment.
C12_NewDescriptorOneImage ==
  kustomization.last = "created" =>
    /\ kustomization.before = None
    /\ ImagesOf(kustomization.file) =
         <<[name |-> <<kustomization.registry.endpoint, kustomization.registry.repository>>,
            newTag |-> kustomization.imageTag]>>

\* A first deployment of the repository db with tag t2 wrote a new file.
C12_Witness ==
  /\ kustomization.last = "created"
  /\ kustomization.updates = 1
  /\ kustomization.registry.repository = "db"
  /\ kustomization.imageTag = "t2"
  /\ Len(ImagesOf(kustomization.file)) = 1

\* C13: in a GitOps deployment that got to the git step, whatever git add,
\* commit and push did, the only error the run can have is that of a
\* post_deploy hook: executeHooks is called for post_deploy, every hook of the
\* list runs unless one fails, and without a hook failure the strategy
\* returns manifestUpdated = true and the run ends with deploySuccess.
C13_VcsOutcomeNeverFails ==
  Occurs(trace, <<"git", "add">>) =>
    /\ Occurs(trace, <<"docker", "push">>)
    /\ Occurs(trace, <<"fs", "write kustomization">>)
    /\ pc # "go_commit"
    /\ hk.phase = "post_deploy"
    /\ (err.kind # "none" => err.kind = "hook" /\ err.at[1] = "post_deploy")
    /\ (err.kind = "none" /\ pc # "hooks" =>
          Len(HookRuns("post_deploy")) = Len(hk.list))
    /\ (err.kind = "none" /\ pc \notin {"hooks", "go_rmi"} =>
          /\ Occurs(trace, <<"docker", "rmi">>)
          /\ \E r \in res : r.manifestsApplied)
    /\ (err.kind = "none" /\ pc = "exited" =>
          /\ \E r \in deployResult : r.manifestsApplied /\ ~r.skipped
          /\ Notified("deploySuccess") = 1 /\ Notified("deployError") = 0
          /\ cli.exitCode = Some(0))

\* git push failed with an error other than "nothing to commit"; the two
\* post_deploy hooks ran and the run ended with deploySuccess.
C13_Witness ==
  /\ pc = "exited"
  /\ Occurs(trace, <<"git", "push">>)
  /\ Occurs(trace, <<"log", "commit manually">>)
  /\ Len(HookRuns("post_deploy")) = 2
  /\ Notified("deploySuccess") = 1

\* The checkpoint of the GitOps strategy an event belongs to, 0 for the
\* events of the deploy action.
Checkpoint(e) ==
  CASE e[1] = "hook" /\ e[2] = "pre_build" -> 1
    [] e = <<"docker", "build">> -> 2
    [] e[1] = "hook" /\ e[2] = "post_build" -> 3
    [] e \in {<<"docker", "tag">>, <<"kubectl", "get svc">>, <<"docker", "push">>} -> 4
    [] e[1] = "hook" /\ e[2] = "pre_deploy" -> 5
    [] e = <<"fs", "write kustomization">> -> 6
    [] e[1] = "log" \/ e \in {<<"git", "add">>, <<"git", "commit">>, <<"git", "push">>} -> 7
    [] e[1] = "hook" /\ e[2] = "post_deploy" -> 8
    [] e = <<"docker", "rmi">> -> 9
    [] OTHER -> 0

GitOpsRun == config.type = "container" /\ config.gitops /\ ~options.dryRun

\* C14: a non-dry-run GitOps deployment passes its checkpoints in the order
\* pre_build hooks, image build, post_build hooks, tag and push, pre_deploy
\* hooks, kustomization.yaml, git, post_deploy hooks, image removal.
C14_GitOpsCheckpointOrder ==
  GitOpsRun =>
    \A i, j \in DOMAIN trace :
      i < j /\ Checkpoint(trace[i]) > 0 /\ Checkpoint(trace[j]) > 0
        => Checkpoint(trace[i]) <= Checkpoint(trace[j])

\* C15: for a registry inside the cluster the GitOps strategy pushes to
\* localhost and the configured NodePort, or without one to the port the
\* query printed when that is a number other than 0, and to 30500 in every
\* other case, a query that failed included.
C15_NodePortFallback ==
  GitOpsRun =>
    /\ (pc = "go_push_images" /\ go.inCluster =>
          go.nodePort =
            IF go.registryNodePort # None THEN go.registryNodePort
            ELSE IF \E out \in go.nodePortOutput : \E n \in ParseInt(out) : n # 0
                 THEN ParseInt(CHOOSE out \in go.nodePortOutput : TRUE)
                 ELSE Some(30500))
    /\ ~(err.kind = "publish" /\ err.at = "get svc")

\* The types for which the build and upload phases do not apply.
NotApplicableTypes == {"web", "container", "npm", "dockerhub", "service"}

BeforeBuild == {"cli_load", "cli_dryRun", "cli_deployStart", "cli_gitHash", "cli_build"}
InBuild == {"build", "build_docker", "cli_buildDone"}
InUpload == {"cli_upload", "upload", "cli_uploadDone"}

\* The run got to the deploy phase and no exception is in flight.
DeployReached ==
  /\ TargetResolved
  /\ err.kind = "none"
  /\ pc \notin BeforeBuild \cup InBuild \cup InUpload \cup {"cli_catch"}

\* C18: with --skip-build and type lambda-zip, buildSkipped is emitted once
\* the build phase is passed, BuildService is never used and neither
\* buildStart nor buildSuccess is emitted; without --skip-upload the upload is
\* started all the same, and a run that gets to the deploy phase has emitted
\* uploadSuccess.
C18_SkipBuildStillUploads ==
  TargetResolved /\ options.skipBuild /\ config.type = "lambda-zip" =>
    /\ ~cli.buildService /\ bld.gitHash = None /\ cli.buildResult = None
    /\ pc \notin InBuild
    /\ Notified("buildStart") = 0 /\ Notified("buildSuccess") = 0
    /\ \A i \in DOMAIN trace :
         trace[i] \notin {<<"cargo", "build">>, <<"docker", "build builder image">>,
                          <<"docker", "run builder image">>}
    /\ (pc \notin BeforeBuild => Notified("buildSkipped") = 1)
    /\ (~options.skipUpload =>
          /\ (pc \notin BeforeBuild \cup {"cli_upload"} =>
                Notified("uploadStart") = 1 /\ Notified("uploadSkipped") = 0)
          /\ (pc \notin BeforeBuild \cup {"cli_upload", "upload"} =>
                Count(trace, <<"git", "rev-parse">>) >= 2)
          /\ (DeployReached => Notified("uploadSuccess") = 1))

\* A lambda-zip deployment with --skip-build alone that uploaded its zip and
\* ended with deploySuccess.
C18_Witness ==
  /\ pc = "exited"
  /\ options = [dryRun |-> FALSE, skipBuild |-> TRUE, skipUpload |-> FALSE]
  /\ config.type = "lambda-zip" /\ config.build
  /\ Notified("buildSkipped") = 1
  /\ Count(trace, <<"s3", "putObject">>) = 2
  /\ Notified("uploadSuccess") = 1
  /\ Notified("deploySuccess") = 1

\* C19: a run that got to the deploy phase has emitted exactly one of
\* buildSuccess and buildSkipped, and exactly one of uploadSuccess and
\* uploadSkipped.
C19_SkipAlwaysNotified ==
  DeployReached =>
    /\ Notified("buildSuccess") + Notified("buildSkipped") = 1
    /\ Notified("uploadSuccess") + Notified("uploadSkipped") = 1

C26_VerificationFailsIffBelowMinFiles ==
  /\ [](\A r \in deployResult :
          config.type = "web" /\ ~options.dryRun
          => r.deployedFiles = Some(Count(trace, <<"s3", "putObject">>)))
  /\ [][pc = "wd_check" /\ web.check.run /\ web.check.minFiles # None
        => /\ (pc' = "cli_catch" /\ err'.kind = "verify")
                <=> \E n \in web.check.minFiles : web.deployedFiles < n
           /\ (pc' = "cli_catch" <=> pc' # "dw_post")
           /\ trace' = trace]_vars

\* C27: podsReady is emitted only for a result whose podCount is greater
\* than 0 and webDeployed only for a result whose deployedFiles is greater
\* than 0; a count that is absent or 0 produces neither.
C27_DetailEventsOnlyWhenPositive ==
  /\ Notified("podsReady") > 0
     => \E r \in deployResult : \E n \in r.podCount : n > 0
  /\ Notified("webDeployed") > 0
     => \E r \in deployResult : \E n \in r.deployedFiles : n > 0

\* C28: the gitHash of deploySuccess is the revision the deploy call was
\* given, with or without a build.
C28_SuccessCarriesDeployedRevision ==
  Notified("deploySuccess") > 0
  => /\ cli.successHash # None
     /\ cli.successHash = cli.deployHash

\* C30: a migration job that does not complete (its wait fails or times
\* out, or its terminal condition is not Complete) has its logs fetched before
\* the failure leaves the strategy; the job is deleted exactly when it
\* completed; and no rollout restart follows a failed migration.
MigrationFailed == svc.failedAt \in {"waitFail", "migration"}

C30_FailedMigrationFetchesLogs ==
  /\ MigrationFailed => Occurs(trace, <<"kubectl", "logs job">>)
  /\ Occurs(trace, <<"kubectl", "delete job">>)
     <=> (svc.migrationResult = Some(TRUE) \/ svc.failedAt = "deleteFail")
  /\ MigrationFailed => ~Occurs(trace, <<"kubectl", "rollout restart">>)

NotifyPcs == {"cli_notify", "notify", "wh_send", "wh_wait"}
Posts == Count(trace, <<"fetch", "POST">>)
SendCalled == config.notifications.enabled /\ wh.event \notin config.notifications.disabled

\* C24: whatever the transport does (success, a status that is not OK, a
\* rate-limit response, a network exception) and whatever the event, the
\* notify call raises nothing and the deploy action goes on with the
\* statement that follows the call.
C24_NotificationNeverAborts ==
  /\ err = NoErr
  /\ pc \in NotifyPcs \cup {NextStep(e) : e \in Events}
  /\ pc \notin NotifyPcs => pc = NextStep(wh.event)

C24_Witness ==
  /\ wh.event = "buildStart" /\ pc = "build"
  /\ Occurs(trace, <<"warn", "Failed to send webhook notification">>)

\* The delay in milliseconds a header value indicates.
Millis(h) ==
  LET dots == {i \in DOMAIN h : h[i] = "."}
  IN IF dots = {} THEN Decimal(h) * 1000
     ELSE LET d == CHOOSE i \in dots : TRUE
              fraction == SubSeq(h, d + 1, Len(h))
          IN Decimal(SubSeq(h, 1, d - 1)) * 1000
             + Decimal(fraction) * 10 ^ (3 - Len(fraction))

\* C25: one sendNotification call posts at most once, not at all without a
\* webhook URL and exactly once with one; after a rate-limit response it
\* waits the delay the response indicates, or the configured
\* rateLimitDelay when it indicates none, and returns without a second POST.
C25_OnePostThenDrop ==
  /\ Posts <= 1
  /\ (pc \notin NotifyPcs /\ SendCalled
      => Posts = IF config.notifications.webhook THEN 1 ELSE 0)
  /\ \A i \in DOMAIN trace :
       trace[i][1] = "setTimeout"
       => /\ i = Len(trace) /\ i > 1 /\ trace[i - 1] = <<"fetch", "POST">>
          /\ trace[i][2] = IF wh.retryAfter = None
                           THEN Some(config.notifications.rateLimitDelay)
                           ELSE {Millis(h) : h \in wh.retryAfter}

\* C29: both polling loops end within their budget.  The health check
\* makes an attempt only while fewer than maxRetries have failed; an attempt
\* that sees status healthy ends it with success, any other one is counted,
\* and after maxRetries failed attempts it ends with the health-check error.
\* The PostgreSQL wait makes attempt i only for i up to maxAttempts and
\* throws the timeout error when attempt maxAttempts fails.  Neither loop can
\* be at the same attempt twice, and both are left.
C29_PollingLoopsBounded ==
  /\ [](svc.i \in 0..maxRetries /\ sqlx.i \in 0..maxAttempts)
  /\ [][pc = "sd_health"
        => \/ /\ pc' = "sd_health" /\ svc.i < maxRetries /\ svc'.i = svc.i + 1
           \/ /\ pc' = "sd_podCount" /\ svc.i < maxRetries
              /\ svc'.healthResult = Some(TRUE)
           \/ /\ pc' = "sd_catch" /\ svc.i = maxRetries
              /\ svc'.healthResult = Some(FALSE)
              /\ err' = Err("deploy", "Health check verification failed")]_vars
  /\ [][pc = "sqlx_wait"
        => \/ /\ pc' = "sqlx_wait" /\ sqlx.i < maxAttempts /\ sqlx'.i = sqlx.i + 1
           \/ /\ pc' = "sqlx_generate" /\ sqlx.i \in 1..maxAttempts
           \/ /\ pc' = "sqlx_finally" /\ sqlx.i = maxAttempts
              /\ err' = Err("sqlx", "PostgreSQL failed to start within timeout")]_vars
  /\ (pc = "sd_health" ~> pc \in {"sd_podCount", "sd_catch"})
  /\ (pc = "sqlx_wait" ~> pc \in {"sqlx_generate", "sqlx_finally"})

C29_Witness ==
  /\ pc = "sd_catch" /\ svc.healthResult = Some(FALSE)
  /\ err = Err("deploy", "Health check verification failed")

Removals == Count(trace, <<"docker", "rmi build image">>)
Interrupted == \E i \in DOMAIN trace : trace[i][1] = "signal"

\* C21: a cleanup handler that was registered has been called exactly once
\* when the process has ended, and not before, whether the run succeeded,
\* failed or was interrupted.
C21_CleanupCallbacksOnce ==
  /\ cli.handlers \in {0, 1}
  /\ pc = "exited" => cli.invoked = cli.handlers
  /\ pc # "exited" => cli.invoked = 0

C21_Witness ==
  /\ pc = "exited" /\ Interrupted
  /\ cli.handlers = 1 /\ cli.invoked = 1

C23_InterruptCleansUpWithoutRollback ==
  Interrupted
  => LET s == CHOOSE i \in DOMAIN trace : trace[i][1] = "signal"
     IN /\ pc \in {"exit", "exited"}
        /\ cli.exitCode = Some(1)
        /\ (pc = "exited" => cli.invoked = cli.handlers /\ ~bld.containerName)
        /\ \A j \in (s + 1)..Len(trace) : trace[j] = <<"docker", "rmi build image">>

C23_Witness ==
  /\ Interrupted /\ pc = "exited"
  /\ Occurs(trace, <<"kubectl", "rollout restart">>)
  /\ ~Occurs(trace, <<"kubectl", "rollout undo">>)
  /\ cli.invoked = 1
  /\ trace[Len(trace)] = <<"docker", "rmi build image">>

\* C31: a run selects at most one deployment target, the entry of the
\* requested environment; when the list has no such entry the selection
\* throws, and the run issues no command, runs no hook, builds, uploads and
\* deploys nothing and ends with exit status 1.
C31_OneTargetByEnvironment ==
  /\ Cardinality(cli.target) <= 1
  /\ (pc \notin {"cli_load", "cli_catch"} /\ ~Ended => cli.target = Some(config.environment))
  /\ (cli.target # None => cli.target = Some(config.environment))
  /\ (cli.loaded /\ cli.target = None
      => /\ pc \in {"cli_catch", "exit", "exited"}
         /\ err = Err("config", "target")
         /\ trace = <<>>
         /\ deployResult = None /\ cli.handlers = 0
         /\ (Ended => cli.exitCode = Some(1)))

C31_Witness ==
  /\ pc = "exited" /\ cli.loaded /\ cli.target = None
  /\ cli.exitCode = Some(1)

\* C32: the first notification of a run is deployStart; a dry run emits
\* dryRun after it.
C32_DeployStartFirst ==
  \A i \in DOMAIN trace :
    trace[i][1] = "notify" /\ (\A j \in 1..(i - 1) : trace[j][1] # "notify")
    => trace[i] = <<"notify", "deployStart">>

\* C36: the file-count check compares the objects written with the
\* configured minFiles, whatever it is, and with 5 only when none is
\* configured; a configured 0 never fails the deployment.
C36_ConfiguredThresholdIsUsed ==
  [][pc = "wd_check" /\ web.check.run
     => LET threshold == IF web.check.minFiles = None THEN defaultMinFiles
                         ELSE CHOOSE n \in web.check.minFiles : TRUE
        IN /\ pc' = "cli_catch" <=> web.deployedFiles < threshold
           /\ (web.check.minFiles = Some(0) => pc' = "dw_post")]_vars

\* C35: a notification that is switched off, by notifications.enabled or by
\* its entry in events, reaches no transport: nothing is posted, logged or
\* waited for, and the deploy action goes on with the statement after the
\* call as it does for an enabled event.
C35_DisabledEventNotPosted ==
  wh.event # "none" /\ ~SendCalled
  => /\ trace = <<>>
     /\ pc \in {"notify", NextStep(wh.event)}
     /\ err = NoErr

C35_Witness ==
  /\ config.notifications.webhook /\ config.notifications.enabled
  /\ wh.event = "deploySuccess" /\ wh.event \in config.notifications.disabled
  /\ pc = "cli_cleanup"

\* C37: a response with status healthy ends the health check with success
\* at once, also when its git hash is not the expected one or one of its
\* dependencies is not healthy: the attempt raises nothing, issues no command
\* and does not lead to the catch clause with its rollback.
C37_HealthyResponsePasses ==
  /\ [](svc.healthData # None => pc = "sd_podCount" /\ svc.healthResult = Some(TRUE))
  /\ [][pc = "sd_health" /\ svc'.healthData # None
        => /\ pc' = "sd_podCount"
           /\ err' = err /\ trace' = trace]_vars
  /\ [][pc = "sd_health" /\ svc.i < maxRetries
        => \A data \in [hashMismatch : BOOLEAN, unhealthyDependency : BOOLEAN] :
             ENABLED (/\ VerifyHealthAttempt
                      /\ svc'.healthData = Some(data)
                      /\ pc' = "sd_podCount")]_vars

C37_Witness ==
  /\ pc = "sd_podCount" /\ svc.healthResult = Some(TRUE)
  /\ svc.healthData = Some([hashMismatch |-> TRUE, unhealthyDependency |-> TRUE])

\* C33: in a deployment that builds an image (container, dockerhub,
\* service) and is not a dry run, no pre_build hook runs after the image
\* build has been issued and every post_build hook runs after it.
C33_BuildHooksAroundImageBuild ==
  config.type \in {"container", "dockerhub", "service"} /\ ~options.dryRun
  => \A i \in DOMAIN trace :
       trace[i][1] = "hook"
       => /\ trace[i][2] = "pre_build" => \A j \in 1..(i - 1) : trace[j] \notin ImageBuilds
          /\ trace[i][2] = "post_build" => \E j \in 1..(i - 1) : trace[j] \in ImageBuilds

\* C34: an image that was pushed to Docker Hub was pushed under the tag
\* `latest`, as its primary tag or as one of its additional tags.
C34_PushIncludesLatest ==
  \A r \in res :
    r.pushed => "latest" \in r.tag \cup {r.additionalTags[i] : i \in DOMAIN r.additionalTags}

\* The position of the last occurrence of e in tr, 0 when there is none.
Last(tr, e) ==
  IF Occurs(tr, e) THEN CHOOSE i \in DOMAIN tr : tr[i] = e /\ \A j \in (i + 1)..Len(tr) : tr[j] # e
  ELSE 0

\* C38 as stated: once the npm strategy has returned or thrown, the .npmrc
\* it wrote is gone from the project root.
C38_NpmrcRemoved == pc # "np_publish" => ~npmrc

\* C38: a removal of .npmrc follows every write of it, after a publish that
\* succeeded as after a step that failed; the file is in the project root
\* afterwards only when that removal failed; a dry run writes nothing and
\* leaves no file.
C38_NpmrcRemovalAttempted ==
  /\ Occurs(trace, <<"fs", "write .npmrc">>)
     => /\ ~options.dryRun
        /\ Last(trace, <<"fs", "write .npmrc">>) < Last(trace, <<"fs", "unlink .npmrc">>)
  /\ npmrc => Occurs(trace, <<"fs", "write .npmrc">>)
  /\ options.dryRun => ~npmrc

C38_Witness ==
  /\ pc = "cli_catch" /\ err = Wrap(Err("publish", "publishFail"), "NPM publish failed")
  /\ Occurs(trace, <<"fs", "write .npmrc">>)
  /\ ~npmrc

====
